---------------------------- MODULE Spec2Model ----------------------------
(***************************************************************************)
(* MidiAnalyzer.analyze_midi_file (src/midi_analyzer.py) as a state        *)
(* machine.  One call of the function is walked from its entry to its      *)
(* return: the choice of parsing backend, the per-note / per-message       *)
(* loops, and the final sort / transpose / summary.                        *)
(*                                                                         *)
(* Times are Python floats in the code; here they are exact rationals      *)
(* <<num, den>> (den > 0, lowest terms), so that the arithmetic of the     *)
(* tick-to-second conversion is checked rather than assumed.               *)
(***************************************************************************)
EXTENDS Integers, Sequences, FiniteSets, TLC

(***************************************************************************)
(* Rational arithmetic (Python float arithmetic, idealised).               *)
(***************************************************************************)
RECURSIVE GCD(_, _)
GCD(a, b) == IF b = 0 THEN a ELSE GCD(b, a % b)

Abs(x) == IF x < 0 THEN -x ELSE x

Rat(n, d) ==
    LET g == GCD(Abs(n), Abs(d))
        s == IF d < 0 THEN -1 ELSE 1
    IN  <<(s * n) \div g, (s * d) \div g>>

RInt(n) == <<n, 1>>
RMul(a, b) == Rat(a[1] * b[1], a[2] * b[2])
RDiv(a, b) == Rat(a[1] * b[2], a[2] * b[1])
RSub(a, b) == Rat(a[1] * b[2] - b[1] * a[2], a[2] * b[2])
RAdd(a, b) == Rat(a[1] * b[2] + b[1] * a[2], a[2] * b[2])
RLeq(a, b) == a[1] * b[2] <= b[1] * a[2]
RLt(a, b) == a[1] * b[2] < b[1] * a[2]

(***************************************************************************)
(* groups.py: the naming table.                                            *)
(***************************************************************************)
NOTE_NAMES == <<"c", "c#", "d", "d#", "e", "f", "f#", "g", "g#", "a", "a#", "b">>

GROUPS ==
    << [name |-> "A2-B2", lo |-> 21,  hi |-> 23],
       [name |-> "C1-B1", lo |-> 24,  hi |-> 35],
       [name |-> "C-B",   lo |-> 36,  hi |-> 47],
       [name |-> "c-b",   lo |-> 48,  hi |-> 59],
       [name |-> "c1-b1", lo |-> 60,  hi |-> 71],
       [name |-> "c2-b2", lo |-> 72,  hi |-> 83],
       [name |-> "c3-b3", lo |-> 84,  hi |-> 95],
       [name |-> "c4-b4", lo |-> 96,  hi |-> 107],
       [name |-> "c5",    lo |-> 108, hi |-> 108] >>

UNKNOWN_GROUP == "unknown"

\* (mutation: the upper end of a range is excluded)
RECURSIVE GroupScanExclusiveHi(_, _)
GroupScanExclusiveHi(note, i) ==
    IF i > Len(GROUPS) THEN UNKNOWN_GROUP
    ELSE IF GROUPS[i].lo <= note /\ note < GROUPS[i].hi THEN GROUPS[i].name
    ELSE GroupScanExclusiveHi(note, i + 1)

\* for name, (lo, hi) in GROUPS.items(): first range containing the note.
RECURSIVE GroupScan(_, _)
GroupScan(note, i) ==
    IF i > Len(GROUPS) THEN UNKNOWN_GROUP
    ELSE IF GROUPS[i].lo <= note /\ note <= GROUPS[i].hi THEN GROUPS[i].name
    ELSE GroupScan(note, i + 1)

group_for_note(note) == GroupScan(note, 1)

\* The octave marker the table appends to the pitch letter.
OctaveSymbol(n) ==
    IF n >= 60 THEN
        IF 60 <= n /\ n <= 71 THEN "^1"
        ELSE IF 72 <= n /\ n <= 83 THEN "^2"
        ELSE IF 84 <= n /\ n <= 95 THEN "^3"
        ELSE IF 96 <= n /\ n <= 107 THEN "^4"
        ELSE "^5"
    ELSE IF n >= 48 THEN ""
    ELSE IF n >= 36 THEN ""
    ELSE IF n >= 24 THEN "_1"
    ELSE "_2"

\* NOTE_NAME_MAP[n] for 21 <= n <= 108.  A name is the text
\* letter ++ octave; it is kept as its parts: the NOTE_NAMES entry, whether
\* it was upper-cased, and the octave marker.
NOTE_NAME_MAP(n) ==
    [letter |-> NOTE_NAMES[(n % 12) + 1],
     upper  |-> n < 48,
     octave |-> OctaveSymbol(n)]

\* str(note): digits (and a minus sign) only.
StrOfInt(n) == [digits |-> n]

\* (mutation: the table is read without the range test)
get_note_name_unguarded(note) == NOTE_NAME_MAP(note)

get_note_name(note) ==
    IF 21 <= note /\ note <= 108 THEN NOTE_NAME_MAP(note) ELSE StrOfInt(note)

\* '#' in note_name
HasSharp(name) ==
    /\ "letter" \in DOMAIN name
    /\ name.letter \in {"c#", "d#", "f#", "g#", "a#"}


(***************************************************************************)
(* Inputs of one call.                                                     *)
(*                                                                         *)
(* mid: what mido.MidiFile(file_path) yields: ticks_per_beat and tracks,   *)
(*      each a sequence of messages with delta times in ticks.             *)
(* pm:  what pretty_midi.PrettyMIDI(file_path) yields: instruments, each   *)
(*      with is_drum and notes (start, end in seconds, pitch, velocity).   *)
(*      The library is not part of the repository, so its output is an     *)
(*      input here and is not derived from mid.                            *)
(***************************************************************************)
MaxMsgs == 3        \* messages of a file, all tracks together
MaxPairs == 2       \* note-on / note-off pairs of a track made of pairs
MaxNotes == 2       \* notes of a pretty_midi object, all instruments together
MaxFaultMsgs == 1   \* messages of a file that is read by both backends

Pitches == {60, 61}
DeltaTicks == {0, 480}
Tempos == {500000, 1000000}
Ppqns == {480}
PmStarts == {<<0, 1>>, <<1, 2>>}
PmEnds == {<<1, 2>>, <<1, 1>>}
TrackIds == {0, 1}
Transposes == {0}
OctaveShifts == {0}

NoteOn(dt, n) ==
    [type |-> "note_on", time |-> dt, channel |-> 0, note |-> n, velocity |-> 64]
NoteOff(dt, n) ==
    [type |-> "note_off", time |-> dt, channel |-> 0, note |-> n, velocity |-> 64]

NoteOnMsgs(P) == {NoteOn(dt, n) : dt \in DeltaTicks, n \in P}
NoteOffMsgs(P) == {NoteOff(dt, n) : dt \in DeltaTicks, n \in P}
\* running-status convention: a note_on of velocity 0 ends a note
ZeroVelMsgs ==
    {[type |-> "note_on", time |-> 480, channel |-> 0, note |-> 60, velocity |-> 0]}
TempoMsgs ==
    {[type |-> "set_tempo", time |-> 0, tempo |-> t] : t \in Tempos}

\* a set_tempo anywhere in a track, not only at its head
TempoChangeMsgs ==
    {[type |-> "set_tempo", time |-> dt, tempo |-> t] : dt \in DeltaTicks, t \in Tempos}

NoteMsgs(P) == NoteOnMsgs(P) \cup NoteOffMsgs(P)
AllMsgs == NoteMsgs({60}) \cup ZeroVelMsgs \cup TempoMsgs

SeqsOfLen(S, k) == [1..k -> S]

\* Lists of n tracks over alphabet S holding at most budget messages.
RECURSIVE TrackLists(_, _, _)
TrackLists(S, n, budget) ==
    IF n = 0 THEN {<<>>}
    ELSE UNION { { <<t>> \o rest : t \in SeqsOfLen(S, k),
                                   rest \in TrackLists(S, n - 1, budget - k) } :
                 k \in 0..budget }

\* Tracks of at most n note-on / note-off pairs, one after the other.
PairUnits ==
    {<<NoteOn(d1, n), NoteOff(d2, n)>> : d1 \in DeltaTicks, d2 \in DeltaTicks, n \in Pitches}
RECURSIVE PairTracks(_)
PairTracks(n) ==
    IF n = 0 THEN {<<>>}
    ELSE PairTracks(n - 1) \cup {t \o u : t \in PairTracks(n - 1), u \in PairUnits}

MidOf(ppqn, tracks) == [ticks_per_beat |-> ppqn, tracks |-> tracks]

\* files of all tracks: every kind of message, one pitch
GeneralMids ==
    {MidOf(q, ts) : q \in Ppqns, ts \in TrackLists(AllMsgs, Cardinality(TrackIds), MaxMsgs)}
\* files of one track: note messages of two pitches
TwoPitchMids ==
    {MidOf(q, ts) : q \in Ppqns, ts \in TrackLists(NoteMsgs(Pitches), 1, MaxMsgs)}
\* files of one track: note messages of one key, one message more
OneKeyMids ==
    {MidOf(q, ts) : q \in Ppqns, ts \in TrackLists(NoteMsgs({60}), 1, MaxMsgs + 1)}
\* files of one track made of pairs
PairMids ==
    {MidOf(q, <<t>>) : q \in Ppqns, t \in PairTracks(MaxPairs)}
\* files of one track: notes of one key and tempo changes
TempoMids ==
    {MidOf(q, ts) : q \in Ppqns,
                    ts \in TrackLists(NoteMsgs({60}) \cup TempoChangeMsgs, 1, MaxMsgs)}
MidFiles == GeneralMids \cup TwoPitchMids \cup OneKeyMids \cup PairMids \cup TempoMids
FaultMids ==
    {MidOf(q, ts) : q \in Ppqns, ts \in TrackLists(NoteMsgs({60}), 1, MaxFaultMsgs)}
NoMid == MidOf(480, <<>>)

PmNotes == [start : PmStarts, end : PmEnds, pitch : Pitches, velocity : {64}]

RECURSIVE InstrumentLists(_, _)
InstrumentLists(n, budget) ==
    IF n = 0 THEN {<<>>}
    ELSE UNION { { <<[is_drum |-> d, notes |-> ns]>> \o rest :
                        d \in BOOLEAN, ns \in SeqsOfLen(PmNotes, k),
                        rest \in InstrumentLists(n - 1, budget - k) } :
                 k \in 0..budget }

PmFiles == UNION {InstrumentLists(n, MaxNotes) : n \in 1..Cardinality(TrackIds)}
FaultPms == InstrumentLists(1, 1)
NoPm == <<>>

DEFAULT_MIN_NOTE == 48
DEFAULT_MAX_NOTE == 83

None == "None"

\* _get_key_settings(): the key_settings of config.json, or the defaults.
\* numeric: min_note and max_note are numbers.  config.json may hold null
\* there, and .get() hands it on; such a value is written None and is
\* never compared in the model: a comparison with it raises TypeError.
DefaultKeySettings ==
    [min_note |-> DEFAULT_MIN_NOTE, max_note |-> DEFAULT_MAX_NOTE,
     black_key_mode |-> "auto_sharp", numeric |-> TRUE]
KeySettings == {DefaultKeySettings}
NullKeySettings ==
    [min_note |-> None, max_note |-> None,
     black_key_mode |-> "auto_sharp", numeric |-> FALSE]

VARIABLES
    file_exists,      \* os.path.exists(file_path)
    pretty_midi,      \* the module imported (TRUE) or None (FALSE)
    pm_loads,         \* pretty_midi.PrettyMIDI(file_path) returns
    mido_loads,       \* mido.MidiFile(file_path) returns
    mid,              \* the mido object
    pm,               \* the pretty_midi object
    arg_tracks,       \* the selected_tracks argument
    transpose,
    octave_shift,
    key_settings,     \* what _get_key_settings() returns
    pc,               \* position in analyze_midi_file
    path,             \* the parsing path taken
    selected_tracks,  \* the local list the track loop iterates
    ti,               \* position in selected_tracks (1-based)
    mi,               \* position in the track or note list (1-based)
    current_tick,
    tick_to_second,
    active_notes,
    events,
    result,           \* the returned pair, once returned
    call_log,         \* the calls that have returned: arguments and returned pair
    window            \* the MainWindow object (self of main.py), its threads
                      \* and the callbacks it handed to root.after

inputs == <<file_exists, pretty_midi, pm_loads, mido_loads, mid, pm, arg_tracks,
            transpose, octave_shift, key_settings>>
locals == <<selected_tracks, ti, mi, current_tick, tick_to_second, active_notes, events>>
\* what lies outside one call of analyze_midi_file
outside == <<call_log, window>>
vars == <<inputs, pc, path, locals, result, outside>>

\* The keys of active_notes are (channel, note) pairs.
NoActiveNotes == [k \in {} |-> 0]
NoResult == [events |-> <<>>, summary |-> None]

\* A set of small non-negative ints iterates in ascending order.
RECURSIVE Ascending(_)
Ascending(S) ==
    IF S = {} THEN <<>>
    ELSE LET m == CHOOSE x \in S : \A y \in S : x <= y
         IN  <<m>> \o Ascending(S \ {m})

Range0(n) == [i \in 1..n |-> i - 1]    \* list(range(n))

InitLocals ==
    /\ pc = "start"
    /\ path = "none"
    /\ selected_tracks = Ascending(arg_tracks)
    /\ ti = 1
    /\ mi = 1
    /\ current_tick = 0
    /\ tick_to_second = RInt(0)
    /\ active_notes = NoActiveNotes
    /\ events = <<>>
    /\ result = NoResult

\* One call on its own: nothing was called before it, no window drives it.
Standalone ==
    /\ call_log = <<>>
    /\ window = None

InitArgs ==
    /\ transpose \in Transposes
    /\ octave_shift \in OctaveShifts
    /\ key_settings \in KeySettings

\* Arguments and configurations of the calls that exercise the tail: every
\* transposition that moves the two pitches through the naming table and
\* out of it at both ends, and ranges that start on a black key or reach
\* beyond the table.
MaxTranspose == 12
MaxOctaveShift == 5
WideTransposes == (0 - MaxTranspose)..MaxTranspose
WideOctaveShifts == (0 - MaxOctaveShift)..MaxOctaveShift
KeyRanges == {<<DEFAULT_MIN_NOTE, DEFAULT_MAX_NOTE>>, <<49, 82>>, <<10, 120>>}
WideKeySettings ==
    {[min_note |-> r[1], max_note |-> r[2], black_key_mode |-> m, numeric |-> TRUE] :
        r \in KeyRanges, m \in {"auto_sharp", "support_black_key"}}

\* one track: one note of either pitch, or a tempo and an orphan note-off
TransformMids ==
    {MidOf(480, <<u>>) : u \in {<<NoteOn(0, n), NoteOff(480, n)>> : n \in Pitches}}
    \cup {MidOf(480, <<t \o <<NoteOff(480, 60)>>>>) : t \in SeqsOfLen(TempoMsgs, 1)}
\* one instrument of one note
TransformPms ==
    {<<[is_drum |-> FALSE,
        notes |-> <<[start |-> <<0, 1>>, end |-> <<1, 2>>, pitch |-> n, velocity |-> 64]>>]>> :
        n \in Pitches}

InitTransformFiles ==
    \/ /\ file_exists = FALSE
       /\ pretty_midi = TRUE
       /\ pm_loads = FALSE /\ mido_loads = FALSE
       /\ mid = NoMid /\ pm = NoPm
       /\ arg_tracks = {}
    \/ /\ file_exists = TRUE
       /\ \/ /\ pretty_midi = FALSE /\ pm_loads = FALSE /\ pm = NoPm
             /\ \/ mido_loads = TRUE /\ mid \in TransformMids
                \/ mido_loads = FALSE /\ mid = NoMid
             /\ arg_tracks \in {{0}, {0, 1}}
          \/ /\ pretty_midi = TRUE /\ pm_loads = FALSE /\ pm = NoPm
             /\ \/ mido_loads = TRUE /\ mid \in TransformMids
                \/ mido_loads = FALSE /\ mid = NoMid
             /\ arg_tracks = {}
          \/ /\ pretty_midi = TRUE /\ pm_loads = TRUE /\ pm \in TransformPms
             /\ \/ mido_loads = FALSE /\ mid = NoMid
                \/ mido_loads = TRUE /\ mid \in TransformMids
             /\ arg_tracks = {}

\* A call under a config.json whose min_note / max_note are null: a file of
\* pairs read by mido alone, or one instrument read by pretty_midi.
InitNullConfig ==
    /\ transpose \in Transposes
    /\ octave_shift \in OctaveShifts
    /\ key_settings = NullKeySettings
    /\ file_exists = TRUE
    /\ \/ /\ pretty_midi = FALSE /\ pm_loads = FALSE /\ pm = NoPm
          /\ mido_loads = TRUE /\ mid \in PairMids
          /\ arg_tracks = {0}
       \/ /\ pretty_midi = TRUE /\ pm_loads = TRUE /\ pm \in FaultPms
          /\ mido_loads = FALSE /\ mid = NoMid
          /\ arg_tracks = {}

\* The file and the backends of a call.  An object a backend does not build
\* (the module is missing, the file is missing, the load raises) is absent;
\* a file that both backends read is drawn from the small families.
InitFiles ==
    \/ /\ file_exists = FALSE
       /\ pretty_midi \in BOOLEAN
       /\ pm_loads = FALSE /\ mido_loads = FALSE
       /\ mid = NoMid /\ pm = NoPm
       /\ arg_tracks \in SUBSET TrackIds
    \/ /\ file_exists = TRUE
       /\ \/ /\ pretty_midi = FALSE /\ pm_loads = FALSE /\ pm = NoPm
             /\ \/ mido_loads = TRUE /\ mid \in MidFiles
                \/ mido_loads = FALSE /\ mid = NoMid
             /\ arg_tracks \in SUBSET TrackIds
          \/ /\ pretty_midi = TRUE /\ pm_loads = FALSE /\ pm = NoPm
             /\ \/ mido_loads = TRUE /\ mid \in MidFiles
                \/ mido_loads = FALSE /\ mid = NoMid
             /\ arg_tracks \in {{}, {0}}
          \/ /\ pretty_midi = TRUE /\ pm_loads = TRUE
             /\ \/ mido_loads = FALSE /\ mid = NoMid /\ pm \in PmFiles
                \/ mido_loads = TRUE /\ mid \in FaultMids /\ pm \in FaultPms
             /\ arg_tracks \in SUBSET TrackIds

\* The state at the entry of a call.
Init ==
    /\ \/ InitArgs /\ InitFiles
       \/ InitNullConfig
    /\ InitLocals
    /\ Standalone

\* The state at the entry of a call with any transposition and range.
InitTransform ==
    /\ \/ /\ transpose \in WideTransposes
          /\ octave_shift \in WideOctaveShifts
          /\ key_settings \in WideKeySettings
          /\ InitTransformFiles
       \/ InitNullConfig
    /\ InitLocals
    /\ Standalone


(***************************************************************************)
(* Helpers of analyze_midi_file.                                           *)
(***************************************************************************)
DEFAULT_TEMPO == 500000

\* for msg in track: if msg.type == 'set_tempo': tempo = msg.tempo; break
RECURSIVE FirstTempo(_, _, _)
FirstTempo(track, i, tempo) ==
    IF i > Len(track) THEN tempo
    ELSE IF track[i].type = "set_tempo" THEN track[i].tempo
    ELSE FirstTempo(track, i + 1, tempo)

\* for track in mid.tracks: <first tempo of the track>; if tempo != 500000: break
RECURSIVE ScanTempo(_, _, _)
ScanTempo(tracks, k, tempo) ==
    IF k > Len(tracks) THEN tempo
    ELSE LET t == FirstTempo(tracks[k], 1, tempo)
         IN  IF t # DEFAULT_TEMPO THEN t ELSE ScanTempo(tracks, k + 1, t)

\* mido.tempo2bpm(tempo): 60 * 1e6 / tempo
tempo2bpm(tempo) == Rat(60 * 1000000, tempo)

\* tick_to_second = mido.tempo2bpm(tempo) / 60.0 / ticks_per_beat
TickToSecond(tempo, ticks_per_beat) ==
    RDiv(RDiv(tempo2bpm(tempo), RInt(60)), RInt(ticks_per_beat))

MidoTickToSecond(m) == TickToSecond(ScanTempo(m.tracks, 1, DEFAULT_TEMPO), m.ticks_per_beat)

note_on_event(time, note, channel, track, duration, end, velocity) ==
    [time |-> time, type |-> "note_on", note |-> note, channel |-> channel,
     group |-> group_for_note(note), track |-> track, duration |-> duration,
     end |-> end, velocity |-> velocity, is_over_limit |-> FALSE]

note_off_event(time, note, channel, track, velocity) ==
    [time |-> time, type |-> "note_off", note |-> note, channel |-> channel,
     group |-> group_for_note(note), track |-> track,
     velocity |-> velocity, is_over_limit |-> FALSE]

\* list.sort(key=lambda x: x['time']) and sorted(...): a stable sort.
RECURSIVE InsertByTime(_, _)
InsertByTime(s, e) ==
    IF s = <<>> THEN <<e>>
    ELSE IF RLt(e.time, Head(s).time) THEN <<e>> \o s
    ELSE <<Head(s)>> \o InsertByTime(Tail(s), e)

RECURSIVE SortPrefix(_, _)
SortPrefix(s, k) ==
    IF k = 0 THEN <<>> ELSE InsertByTime(SortPrefix(s, k - 1), s[k])

\* (mutation: the list is returned in append order)
SortByTimeOmitted(s) == s

SortByTime(s) == SortPrefix(s, Len(s))

\* (mutation: an octave counted as ten semitones)
TransposeTotalOctaveIsTen(t, o) == t + o * 10

\* transpose_total = transpose + octave_shift * 12
TransposeTotal(t, o) == t + o * 12
transpose_total == TransposeTotal(transpose, octave_shift)

\* (mutation: only the upper limit is tested)
OverLimitAboveOnly(n, cfg) == n > cfg.max_note

\* if note < min_note: ... elif note > max_note: ... (is_over_limit = True)
OverLimit(n, cfg) == n < cfg.min_note \/ n > cfg.max_note

\* (mutation: over-limit notes are lowered too)
AutoSharpOverLimitToo(n, over, cfg) ==
    IF cfg.black_key_mode = "auto_sharp" /\ HasSharp(get_note_name(n))
    THEN n - 1 ELSE n

\* (mutation: a black key is lowered by a whole tone)
AutoSharpWholeTone(n, over, cfg) ==
    IF ~over /\ cfg.black_key_mode = "auto_sharp" /\ HasSharp(get_note_name(n))
    THEN n - 2 ELSE n

\* if not is_over_limit and black_key_mode == "auto_sharp":
\*     if '#' in get_note_name(note): note -= 1
AutoSharp(n, over, cfg) ==
    IF ~over /\ cfg.black_key_mode = "auto_sharp" /\ HasSharp(get_note_name(n))
    THEN n - 1 ELSE n

\* The loop body of the mido-only tail, for a transposition of total
\* semitones: no black-key handling there.
MidoOnlyEventBy(event, total, cfg) ==
    LET n == event.note + total
    IN  [event EXCEPT !.note = n,
                      !.group = group_for_note(n),
                      !.is_over_limit = OverLimit(n, cfg)]

MidoOnlyEvent(event, cfg) == MidoOnlyEventBy(event, transpose_total, cfg)

\* The loop body of the common tail, for a transposition of total semitones.
TransformEventBy(event, total, cfg) ==
    LET n    == event.note + total
        over == OverLimit(n, cfg)
        m    == AutoSharp(n, over, cfg)
    IN  [event EXCEPT !.note = m,
                      !.group = group_for_note(m),
                      !.is_over_limit = over]

TransformEvent(event, cfg) == TransformEventBy(event, transpose_total, cfg)

\* (mutation: a note equal to min_note is counted as under)
UnderMinCountInclusive(evs, cfg) ==
    Cardinality({i \in DOMAIN evs : evs[i].note + transpose_total <= cfg.min_note})

\* under_min_count += 1 / over_max_count += 1 in the if / elif of the loop
UnderMinCount(evs, cfg) ==
    Cardinality({i \in DOMAIN evs : evs[i].note + transpose_total < cfg.min_note})
OverMaxCount(evs, cfg) ==
    Cardinality({i \in DOMAIN evs :
                    /\ ~(evs[i].note + transpose_total < cfg.min_note)
                    /\ evs[i].note + transpose_total > cfg.max_note})

MinNote(evs) == CHOOSE n \in {evs[i].note : i \in DOMAIN evs} :
                    \A j \in DOMAIN evs : n <= evs[j].note
MaxNote(evs) == CHOOSE n \in {evs[i].note : i \in DOMAIN evs} :
                    \A j \in DOMAIN evs : n >= evs[j].note

\* The summary of the paths that return before parsing or after it failed.
EmptySummary(cmin, cmax, mode) ==
    [min_note |-> None, max_note |-> None,
     under_min_count |-> 0, over_max_count |-> 0,
     min_note_name |-> "", max_note_group |-> "",
     max_note_name |-> "", min_note_group |-> "",
     is_min_over_limit |-> FALSE, is_max_over_limit |-> FALSE,
     total_over_limit_count |-> 0,
     config_min_note |-> cmin, config_max_note |-> cmax,
     transpose |-> transpose, octave_shift |-> octave_shift,
     black_key_mode |-> mode]

WithField(r, f, v) == [k \in DOMAIN r \cup {f} |-> IF k = f THEN v ELSE r[k]]

\* (mutation: the summary of a missing file has no 'error' key)
NotFoundSummaryWithoutError == EmptySummary(None, None, None)

NotFoundSummary ==
    WithField(EmptySummary(None, None, None), "error", "file does not exist")

\* (mutation: the outermost handler returns a summary of two keys)
OuterExceptSummaryBare == [min_note |-> None, max_note |-> None]

\* except Exception as e: (the outermost handler): no 'error' key
OuterExceptSummary == EmptySummary(None, None, None)

MidoFailedSummary(cfg) ==
    WithField(EmptySummary(cfg.min_note, cfg.max_note, cfg.black_key_mode),
              "error", "pretty_midi and mido both unavailable")

\* analysis_result of a parsed file; evs are the transposed events and
\* raw the events before the transposition loop.
AnalysisResult(evs, raw, cfg) ==
    LET has == evs # <<>>
        lo  == IF has THEN MinNote(evs) ELSE None
        hi  == IF has THEN MaxNote(evs) ELSE None
        under == UnderMinCount(raw, cfg)
        over  == OverMaxCount(raw, cfg)
    IN  [min_note |-> lo, max_note |-> hi,
         under_min_count |-> under, over_max_count |-> over,
         min_note_name |-> IF has THEN get_note_name(lo) ELSE "",
         max_note_name |-> IF has THEN get_note_name(hi) ELSE "",
         min_note_group |-> IF has THEN group_for_note(lo) ELSE "",
         max_note_group |-> IF has THEN group_for_note(hi) ELSE "",
         is_min_over_limit |-> IF has THEN lo < cfg.min_note ELSE FALSE,
         is_max_over_limit |-> IF has THEN hi > cfg.max_note ELSE FALSE,
         total_over_limit_count |-> under + over,
         config_min_note |-> cfg.min_note, config_max_note |-> cfg.max_note,
         transpose |-> transpose, octave_shift |-> octave_shift,
         black_key_mode |-> cfg.black_key_mode]


(***************************************************************************)
(* Entry of analyze_midi_file: the choice of the parsing path.             *)
(***************************************************************************)
Return(evs, summary) ==
    /\ result' = [events |-> evs, summary |-> summary]
    /\ pc' = "done"

\* if not os.path.exists(file_path): return [], {... 'error': ...}
FileNotFound ==
    /\ pc = "start"
    /\ ~file_exists
    /\ path' = "not_found"
    /\ Return(<<>>, NotFoundSummary)
    /\ UNCHANGED <<outside, inputs, locals>>

\* What every mido block does before its track loop.
StartMidoWalk(tracks_to_walk, evs) ==
    /\ events' = evs
    /\ active_notes' = NoActiveNotes
    /\ tick_to_second' = MidoTickToSecond(mid)
    /\ selected_tracks' = tracks_to_walk
    /\ ti' = 1
    /\ mi' = 1
    /\ current_tick' = 0
    /\ pc' = "mido_walk"

\* pretty_midi is None, mido.MidiFile(file_path) returns
MidoOnlyOpen ==
    /\ pc = "start"
    /\ file_exists /\ ~pretty_midi /\ mido_loads
    /\ path' = "mido_only"
    /\ StartMidoWalk(selected_tracks, <<>>)
    /\ UNCHANGED <<outside, inputs, result>>

\* pretty_midi is None, the mido block raises: except Exception as fallback_error
MidoOnlyFail ==
    /\ pc = "start"
    /\ file_exists /\ ~pretty_midi /\ ~mido_loads
    /\ path' = "mido_only_failed"
    /\ Return(<<>>, MidoFailedSummary(key_settings))
    /\ UNCHANGED <<outside, inputs, locals>>

\* pm = pretty_midi.PrettyMIDI(file_path)
\* selected_tracks = list(range(len(pm.instruments)))
SelectAllInstruments(given, instruments) == Range0(Len(instruments))

PrettyLoad ==
    /\ pc = "start"
    /\ file_exists /\ pretty_midi /\ pm_loads
    /\ path' = "pretty_midi"
    /\ selected_tracks' = SelectAllInstruments(selected_tracks, pm)
    /\ ti' = 1 /\ mi' = 1
    /\ pc' = "pm_walk"
    /\ UNCHANGED <<outside, inputs, current_tick, tick_to_second, active_notes, events, result>>

\* except Exception as load_error: the last mido attempt,
\* for track_idx, track in enumerate(mid.tracks)
LoadErrorMido ==
    /\ pc = "start"
    /\ file_exists /\ pretty_midi /\ ~pm_loads /\ mido_loads
    /\ path' = "load_error_mido"
    /\ StartMidoWalk(Range0(Len(mid.tracks)), <<>>)
    /\ UNCHANGED <<outside, inputs, result>>

\* except Exception as load_error, and mido raises too: falls to the tail
LoadErrorAllFail ==
    /\ pc = "start"
    /\ file_exists /\ pretty_midi /\ ~pm_loads /\ ~mido_loads
    /\ path' = "all_failed"
    /\ pc' = "transform"
    /\ UNCHANGED <<outside, inputs, locals, result>>

(***************************************************************************)
(* The pretty_midi loop over instruments and notes.                        *)
(***************************************************************************)
PmTrackIdx == selected_tracks[ti]
PmInstrument == pm[PmTrackIdx + 1]

\* The two events appended for one pretty_midi note.  (The running
\* min_note_value / max_note_value of this loop are recomputed from the
\* events by the tail and are not kept here.)
PmNoteEvents(note, instrument, track_idx) ==
    LET channel == IF instrument.is_drum THEN 9 ELSE track_idx
    IN  << note_on_event(note.start, note.pitch, channel, track_idx,
                         RSub(note.end, note.start), note.end, note.velocity),
           note_off_event(note.end, note.pitch, channel, track_idx, note.velocity) >>

PmNote ==
    /\ pc = "pm_walk"
    /\ ti <= Len(selected_tracks)
    /\ 0 <= PmTrackIdx /\ PmTrackIdx < Len(pm)
    /\ mi <= Len(PmInstrument.notes)
    /\ events' = events \o PmNoteEvents(PmInstrument.notes[mi], PmInstrument, PmTrackIdx)
    /\ mi' = mi + 1
    /\ UNCHANGED <<outside, inputs, pc, path, selected_tracks, ti, current_tick,
                   tick_to_second, active_notes, result>>

PmNextInstrument ==
    /\ pc = "pm_walk"
    /\ ti <= Len(selected_tracks)
    /\ mi > Len(PmInstrument.notes)
    /\ ti' = ti + 1
    /\ mi' = 1
    /\ UNCHANGED <<outside, inputs, pc, path, selected_tracks, current_tick,
                   tick_to_second, active_notes, events, result>>

PmWalkDone ==
    /\ pc = "pm_walk"
    /\ ti > Len(selected_tracks)
    /\ pc' = "transform"
    /\ UNCHANGED <<outside, inputs, path, locals, result>>

\* except Exception as instrument_error: an instrument cannot be read;
\* the events collected so far are kept and mido reads the file.
InstrumentErrorMido ==
    /\ pc = "pm_walk"
    /\ ti <= Len(selected_tracks) /\ mi = 1
    /\ mido_loads
    /\ path' = "instrument_error_mido"
    /\ StartMidoWalk(selected_tracks, events)
    /\ UNCHANGED <<outside, inputs, result>>

\* ... and mido raises too: except Exception as mido_error
InstrumentErrorFail ==
    /\ pc = "pm_walk"
    /\ ti <= Len(selected_tracks) /\ mi = 1
    /\ ~mido_loads
    /\ path' = "instrument_error_failed"
    /\ pc' = "transform"
    /\ UNCHANGED <<outside, inputs, locals, result>>

(***************************************************************************)
(* The mido loop over tracks and messages (the same code in three places). *)
(***************************************************************************)
TrackIdx == selected_tracks[ti]
TrackInRange == 0 <= TrackIdx /\ TrackIdx < Len(mid.tracks)
Track == mid.tracks[TrackIdx + 1]
Msg == Track[mi]
AtMsg ==
    /\ pc = "mido_walk"
    /\ ti <= Len(selected_tracks)
    /\ TrackInRange
    /\ mi <= Len(Track)

NextTick == current_tick + Msg.time
CurrentTime == RMul(RInt(NextTick), tick_to_second)
NoteKey == <<Msg.channel, Msg.note>>

IsNoteOn(msg) == msg.type = "note_on" /\ msg.velocity > 0
IsNoteOff(msg) == msg.type = "note_off" \/ (msg.type = "note_on" /\ msg.velocity = 0)

Advance ==
    /\ current_tick' = NextTick
    /\ mi' = mi + 1
    /\ UNCHANGED <<outside, inputs, pc, path, selected_tracks, ti, tick_to_second, result>>

\* active_notes[note_key] = {...}
StoreActive(active, key, rec) ==
    [k \in DOMAIN active \cup {key} |-> IF k = key THEN rec ELSE active[k]]

\* del active_notes[note_key]
DelActive(active, key) == [k \in DOMAIN active \ {key} |-> active[k]]

MidoNoteOn ==
    /\ AtMsg
    /\ IsNoteOn(Msg)
    /\ active_notes' = StoreActive(active_notes, NoteKey,
                          [start_time |-> CurrentTime, velocity |-> Msg.velocity,
                           track |-> TrackIdx])
    /\ UNCHANGED events
    /\ Advance

\* (mutation: the note_off event is not appended)
PairEventsWithoutOff(started, msg, current_time, track_idx) ==
    << note_on_event(started.start_time, msg.note, msg.channel, track_idx,
                     RSub(current_time, started.start_time), current_time,
                     started.velocity) >>

\* (mutation: duration is the end time, the start is not subtracted)
PairEventsDurationIsEnd(started, msg, current_time, track_idx) ==
    << note_on_event(started.start_time, msg.note, msg.channel, track_idx,
                     current_time, current_time, started.velocity),
       note_off_event(current_time, msg.note, msg.channel, track_idx,
                      started.velocity) >>

\* The two events appended when a note-off finds its key in active_notes.
PairEvents(started, msg, current_time, track_idx) ==
    << note_on_event(started.start_time, msg.note, msg.channel, track_idx,
                     RSub(current_time, started.start_time), current_time,
                     started.velocity),
       note_off_event(current_time, msg.note, msg.channel, track_idx,
                      started.velocity) >>

MidoNoteOff ==
    /\ AtMsg
    /\ IsNoteOff(Msg)
    /\ NoteKey \in DOMAIN active_notes
    /\ events' = events \o PairEvents(active_notes[NoteKey], Msg, CurrentTime, TrackIdx)
    /\ active_notes' = DelActive(active_notes, NoteKey)
    /\ Advance

\* (mutation: a note_off without a pending note-on is still emitted)
OrphanEventsEmitted(evs, msg, current_time, track_idx) ==
    evs \o <<note_off_event(current_time, msg.note, msg.channel, track_idx, msg.velocity)>>

\* if note_key in active_notes: is false: nothing is done with the message
OrphanEvents(evs, msg, current_time, track_idx) == evs

MidoOrphanOff ==
    /\ AtMsg
    /\ IsNoteOff(Msg)
    /\ NoteKey \notin DOMAIN active_notes
    /\ events' = OrphanEvents(events, Msg, CurrentTime, TrackIdx)
    /\ UNCHANGED active_notes
    /\ Advance

\* a message that is neither: only current_tick moves
MidoOtherMsg ==
    /\ AtMsg
    /\ ~IsNoteOn(Msg) /\ ~IsNoteOff(Msg)
    /\ UNCHANGED <<events, active_notes>>
    /\ Advance

\* What is left of active_notes when the loop goes to the next track:
\* the dictionary is created once, before the loop over the tracks.
ActiveAtNextTrack(active) == active

MidoEndTrack ==
    /\ pc = "mido_walk"
    /\ ti <= Len(selected_tracks)
    /\ TrackInRange
    /\ mi > Len(Track)
    /\ ti' = ti + 1
    /\ mi' = 1
    /\ current_tick' = 0
    /\ active_notes' = ActiveAtNextTrack(active_notes)
    /\ UNCHANGED <<outside, inputs, pc, path, selected_tracks, tick_to_second, events, result>>

\* if 0 <= track_idx < len(mid.tracks): is false
MidoSkipTrack ==
    /\ pc = "mido_walk"
    /\ ti <= Len(selected_tracks)
    /\ ~TrackInRange
    /\ ti' = ti + 1
    /\ UNCHANGED <<outside, inputs, pc, path, selected_tracks, mi, current_tick,
                   tick_to_second, active_notes, events, result>>

MidoWalkDone ==
    /\ pc = "mido_walk"
    /\ ti > Len(selected_tracks)
    /\ pc' = IF path = "mido_only" THEN "mido_only_tail" ELSE "transform"
    /\ UNCHANGED <<outside, inputs, path, locals, result>>

(***************************************************************************)
(* The two tails.                                                          *)
(***************************************************************************)
MapEvents(evs, F(_, _), cfg) == [i \in DOMAIN evs |-> F(evs[i], cfg)]

\* mido-only path: transpose, count, summary with a warning,
\* return sorted(events, key=lambda x: x['time']), analysis_result
\* The first comparison of a note with min_note raises TypeError when
\* min_note is not a number.
TailRaises(evs, cfg) == evs # <<>> /\ ~cfg.numeric

ReturnMidoOnly ==
    /\ pc = "mido_only_tail"
    /\ ~TailRaises(events, key_settings)
    /\ LET evs == MapEvents(events, MidoOnlyEvent, key_settings)
       IN  /\ events' = evs
           /\ Return(SortByTime(evs),
                     WithField(AnalysisResult(evs, events, key_settings), "warning",
                               "parsed by the mido fallback"))
    /\ UNCHANGED <<outside, inputs, path, selected_tracks, ti, mi, current_tick,
                   tick_to_second, active_notes>>

\* common tail: events.sort(key=time), transpose / flags / black keys,
\* summary, return events, analysis_result
Transform ==
    /\ pc = "transform"
    /\ ~TailRaises(events, key_settings)
    /\ LET sorted == SortByTime(events)
           evs == MapEvents(sorted, TransformEvent, key_settings)
       IN  /\ events' = evs
           /\ Return(evs, AnalysisResult(evs, sorted, key_settings))
    /\ UNCHANGED <<outside, inputs, path, selected_tracks, ti, mi, current_tick,
                   tick_to_second, active_notes>>

\* mido-only path: the TypeError is raised inside the try of the mido
\* block and caught by except Exception as fallback_error.  The loop has
\* already added transpose_total to the note of the first event.
MidoOnlyTailRaises ==
    /\ pc = "mido_only_tail"
    /\ TailRaises(events, key_settings)
    /\ path' = "mido_only_failed"
    /\ events' = [events EXCEPT ![1].note = @ + transpose_total,
                                ![1].group = group_for_note(events[1].note + transpose_total)]
    /\ Return(<<>>, MidoFailedSummary(key_settings))
    /\ UNCHANGED <<outside, inputs, selected_tracks, ti, mi, current_tick,
                   tick_to_second, active_notes>>

\* common tail: the TypeError leaves the function body and is caught by
\* the outermost except Exception as e, after events.sort() and the
\* transposition of the first event.
UnexpectedException ==
    /\ pc = "transform"
    /\ TailRaises(events, key_settings)
    /\ path' = "unexpected_exception"
    /\ LET sorted == SortByTime(events)
       IN  events' = [sorted EXCEPT ![1].note = @ + transpose_total,
                                   ![1].group = group_for_note(sorted[1].note + transpose_total)]
    /\ Return(<<>>, OuterExceptSummary)
    /\ UNCHANGED <<outside, inputs, selected_tracks, ti, mi, current_tick,
                   tick_to_second, active_notes>>

Next ==
    \/ FileNotFound
    \/ MidoOnlyOpen
    \/ MidoOnlyFail
    \/ PrettyLoad
    \/ LoadErrorMido
    \/ LoadErrorAllFail
    \/ PmNote
    \/ PmNextInstrument
    \/ PmWalkDone
    \/ InstrumentErrorMido
    \/ InstrumentErrorFail
    \/ MidoNoteOn
    \/ MidoNoteOff
    \/ MidoOrphanOff
    \/ MidoOtherMsg
    \/ MidoEndTrack
    \/ MidoSkipTrack
    \/ MidoWalkDone
    \/ ReturnMidoOnly
    \/ MidoOnlyTailRaises
    \/ Transform
    \/ UnexpectedException

Spec == Init /\ [][Next]_vars

SpecTransform == InitTransform /\ [][Next]_vars


(***************************************************************************)
(* Calls one after another.  analyze_midi_file is a staticmethod: a call   *)
(* gets its arguments, reads config.json anew and creates its locals.      *)
(***************************************************************************)
MaxCalls == 3       \* calls in a row

\* The files of the calls in a row: one for every way into the function.
\* Their instruments are all readable.
CallFile(exists, module, pmok, midook, m, p) ==
    [file_exists |-> exists, pretty_midi |-> module, pm_loads |-> pmok,
     mido_loads |-> midook, mid |-> m, pm |-> p]
OnePm == CHOOSE p \in TransformPms : p[1].notes[1].pitch = 60
MissingFile == CallFile(FALSE, TRUE, FALSE, FALSE, NoMid, NoPm)
PairFile == CallFile(TRUE, FALSE, FALSE, TRUE,
                     MidOf(480, <<<<NoteOn(0, 60), NoteOff(480, 60)>>>>), NoPm)
OrphanFile == CallFile(TRUE, FALSE, FALSE, TRUE,
                       MidOf(480, <<<<[type |-> "set_tempo", time |-> 0, tempo |-> 1000000],
                                      NoteOff(480, 60)>>>>), NoPm)
DanglingFile == CallFile(TRUE, FALSE, FALSE, TRUE,
                         MidOf(480, <<<<NoteOn(0, 60)>>, <<NoteOff(480, 60)>>>>), NoPm)
BrokenFile == CallFile(TRUE, FALSE, FALSE, FALSE, NoMid, NoPm)
PmFile == CallFile(TRUE, TRUE, TRUE, FALSE, NoMid, OnePm)
PmRefusedFile == CallFile(TRUE, TRUE, FALSE, TRUE,
                          MidOf(480, <<<<NoteOn(0, 60), NoteOff(480, 60)>>>>), NoPm)
RefusedFile == CallFile(TRUE, TRUE, FALSE, FALSE, NoMid, NoPm)
CallFiles == {MissingFile, PairFile, OrphanFile, DanglingFile, BrokenFile,
              PmFile, PmRefusedFile, RefusedFile}

\* config.json as the call finds it: its key range (none when min_note and
\* max_note are null) and its black key mode
ConfigOf(cfg) ==
    [range |-> IF cfg.numeric THEN <<cfg.min_note, cfg.max_note>> ELSE <<>>,
     black_key_mode |-> cfg.black_key_mode]
KeySettingsOf(config) ==
    IF config.range = <<>> THEN NullKeySettings
    ELSE [min_note |-> config.range[1], max_note |-> config.range[2],
          black_key_mode |-> config.black_key_mode, numeric |-> TRUE]

CallOf(f, tracks, t, o, config) ==
    [file |-> f, arg_tracks |-> tracks, transpose |-> t, octave_shift |-> o,
     config |-> config]
CallInputs ==
    {CallOf(f, {0, 1}, 0, 0, ConfigOf(DefaultKeySettings)) : f \in CallFiles}
    \cup {CallOf(f, {0, 1}, 0, 0, ConfigOf(NullKeySettings)) : f \in {PairFile, PmFile}}
    \cup {CallOf(f, {0, 1}, 1, 0, ConfigOf(DefaultKeySettings)) : f \in {PairFile, PmFile}}
    \cup {CallOf(PairFile, {}, 0, 0, ConfigOf(DefaultKeySettings))}

\* the arguments, the file and the configuration of the call in progress
CurrentCall ==
    CallOf(CallFile(file_exists, pretty_midi, pm_loads, mido_loads, mid, pm),
           arg_tracks, transpose, octave_shift, ConfigOf(key_settings))

InitCalls ==
    /\ \E c \in CallInputs :
          /\ file_exists = c.file.file_exists
          /\ pretty_midi = c.file.pretty_midi
          /\ pm_loads = c.file.pm_loads
          /\ mido_loads = c.file.mido_loads
          /\ mid = c.file.mid
          /\ pm = c.file.pm
          /\ arg_tracks = c.arg_tracks
          /\ transpose = c.transpose
          /\ octave_shift = c.octave_shift
          /\ key_settings = KeySettingsOf(c.config)
    /\ InitLocals
    /\ Standalone

\* (mutation: the event list outlives the call, as a class attribute would)
EventsAtEntryKept(evs) == evs

\* events = []
EventsAtEntry(evs) == <<>>

\* The call has returned and the caller calls again: the returned pair goes
\* to the caller, the new call starts from its own arguments and locals.
NewCall ==
    /\ pc = "done"
    /\ Len(call_log) < MaxCalls - 1
    /\ call_log' = Append(call_log, [args |-> CurrentCall, returned |-> result])
    /\ \E c \in CallInputs :
          /\ file_exists' = c.file.file_exists
          /\ pretty_midi' = c.file.pretty_midi
          /\ pm_loads' = c.file.pm_loads
          /\ mido_loads' = c.file.mido_loads
          /\ mid' = c.file.mid
          /\ pm' = c.file.pm
          /\ arg_tracks' = c.arg_tracks
          /\ transpose' = c.transpose
          /\ octave_shift' = c.octave_shift
          /\ key_settings' = KeySettingsOf(c.config)
          /\ selected_tracks' = Ascending(c.arg_tracks)
    /\ pc' = "start"
    /\ path' = "none"
    /\ ti' = 1
    /\ mi' = 1
    /\ current_tick' = 0
    /\ tick_to_second' = RInt(0)
    /\ active_notes' = NoActiveNotes
    /\ events' = EventsAtEntry(events)
    /\ result' = NoResult
    /\ UNCHANGED window

NextCalls ==
    \/ FileNotFound
    \/ MidoOnlyOpen
    \/ MidoOnlyFail
    \/ PrettyLoad
    \/ LoadErrorMido
    \/ LoadErrorAllFail
    \/ PmNote
    \/ PmNextInstrument
    \/ PmWalkDone
    \/ MidoNoteOn
    \/ MidoNoteOff
    \/ MidoOrphanOff
    \/ MidoOtherMsg
    \/ MidoEndTrack
    \/ MidoSkipTrack
    \/ MidoWalkDone
    \/ ReturnMidoOnly
    \/ MidoOnlyTailRaises
    \/ Transform
    \/ UnexpectedException
    \/ NewCall

SpecCalls == InitCalls /\ [][NextCalls]_vars


(***************************************************************************)
(* MainWindow (main.py): the fields the analysis, the track rows, the      *)
(* preview and the MIDI audition read and write.  The window runs with     *)
(* pretty_midi installed and the default config.json, on files that        *)
(* pretty_midi reads and whose track i is instrument i.                    *)
(***************************************************************************)
MaxLoads == 2            \* files loaded one after another
MaxPreviews == 2         \* preview sessions started
MaxTrackTranspose == 1   \* semitones a track is moved by its + and - buttons
MaxClicks == 2           \* suggestion links clicked
MaxPending == 2          \* callbacks pending when the user acts

\* self.midi_files, and the pitch of the one note of each track of a file
midi_files == <<"a.mid", "b.mid">>
WindowFiles == {midi_files[i] : i \in DOMAIN midi_files}
FileTracks(f) == IF f = "a.mid" THEN <<90, 100>> ELSE <<60, 40>>
TrackIndexes(f) == {i - 1 : i \in DOMAIN FileTracks(f)}

\* pretty_midi.PrettyMIDI(f)
PmOf(f) ==
    [i \in DOMAIN FileTracks(f) |->
        [is_drum |-> FALSE,
         notes |-> <<[start |-> <<0, 1>>, end |-> <<1, 2>>,
                      pitch |-> FileTracks(f)[i], velocity |-> 64]>>]]

\* for msg in mid.tracks[track_index]: the notes of its note_on messages
TrackNotes(f, i) == <<FileTracks(f)[i + 1]>>

RECURSIVE InstrumentEvents(_, _, _)
InstrumentEvents(instrument, track_idx, k) ==
    IF k = 0 THEN <<>>
    ELSE InstrumentEvents(instrument, track_idx, k - 1)
            \o PmNoteEvents(instrument.notes[k], instrument, track_idx)

RECURSIVE PmEvents(_, _)
PmEvents(p, k) ==
    IF k = 0 THEN <<>>
    ELSE PmEvents(p, k - 1) \o InstrumentEvents(p[k], k - 1, Len(p[k].notes))

\* What analyze_midi_file returns for a file that pretty_midi reads, under
\* the transpose and octave_shift of the call: PrettyLoad, the walk over
\* all instruments and Transform.  Every return statement returns a pair.
PrettyMidiReturn(p, cfg) ==
    LET raw == SortByTime(PmEvents(p, Len(p)))
        evs == MapEvents(raw, TransformEvent, cfg)
    IN  <<evs, AnalysisResult(evs, raw, cfg)>>

\* events, analysis_result, track_names, track_note_counts = ...
\* binds four names: a value of any other length raises ValueError.
UnpackTargets == 4
Unpacks(ret) == Len(ret) = UnpackTargets

Nothing == <<>>          \* an attribute that is None
Some(x) == <<x>>
NoDict == [k \in {} |-> 0]
NoLinks == [max_link |-> Nothing, min_link |-> Nothing]

\* MainWindow.__init__ and setup_ui
ConstructedWindow ==
    [current_file |-> None,
     current_file_path |-> None,         \* the attribute does not exist yet
     transpose_var |-> 0,
     octave_var |-> 0,
     selected_tracks |-> {},
     track_transpose_vars |-> NoDict,
     track_octave_vars |-> NoDict,
     rows |-> NoDict,                    \* the track rows: the links each shows
     suggestion_cache |-> NoDict,
     current_events |-> <<>>,
     current_analysis_result |-> Nothing,
     is_previewing |-> FALSE,
     is_playing_midi |-> FALSE,
     preview_button |-> [text |-> "preview", state |-> "disabled"],
     midi_play_button |-> [text |-> "play midi", state |-> "disabled"],
     music_busy |-> FALSE,               \* pygame.mixer.music.get_busy()
     clicks |-> 0,                       \* suggestion links clicked so far
     threads |-> [load |-> <<>>, preview |-> <<>>, analysis |-> <<>>],
                                         \* threading.Thread(...).start(), by target
     after |-> <<>>]                     \* root.after(...): callbacks to run

Enqueue(w, cb) == [w EXCEPT !.after = Append(@, cb)]
StartThread(w, target, th) == [w EXCEPT !.threads[target] = Append(@, th)]

(***************************************************************************)
(* update_event_data                                                       *)
(***************************************************************************)
\* for event in events: the offset of the event's own track is added to
\* its note, the group is looked up again
TrackOffsetEvent(w, event) ==
    IF event.track \in DOMAIN w.track_transpose_vars
    THEN LET total_offset == w.track_transpose_vars[event.track]
                                + w.track_octave_vars[event.track] * 12
         IN  IF total_offset # 0
             THEN [event EXCEPT !.note = @ + total_offset,
                                !.group = group_for_note(event.note + total_offset)]
             ELSE event
    ELSE event
TrackOffsets(w, evs) == [i \in DOMAIN evs |-> TrackOffsetEvent(w, evs[i])]

\* MidiAnalyzer.analyze_midi_file(self.current_file_path, ...)
AnalyzerReturn(w) == PrettyMidiReturn(PmOf(w.current_file_path), DefaultKeySettings)

update_event_data(w) ==
    IF w.current_file_path # None /\ w.selected_tracks # {}
    THEN LET ret == AnalyzerReturn(w)
         IN  IF Unpacks(ret)
             THEN [w EXCEPT !.current_events = TrackOffsets(w, ret[1]),
                            !.current_analysis_result = Some(ret[2])]
             ELSE \* except Exception as e:
                  [w EXCEPT !.current_events = <<>>,
                            !.current_analysis_result = Nothing]
    ELSE w

(***************************************************************************)
(* The analysis of one track and its suggestions                           *)
(***************************************************************************)
\* score = abs(final_transpose) + abs(final_octave), less 0.5 when
\* abs(final_transpose) is 5, 6 or 7 (the scores are doubled here)
SuggestionFor(diff, current_transpose, current_octave, octave_shift_tried) ==
    [transpose |-> current_transpose + (diff - octave_shift_tried * 12),
     octave |-> current_octave + octave_shift_tried]
Score(s) ==
    2 * (Abs(s.transpose) + Abs(s.octave))
       - (IF 5 <= Abs(s.transpose) /\ Abs(s.transpose) <= 7 THEN 1 ELSE 0)

\* suggestions[0] of _optimize_transpose_suggestion: range(-2, 3) in order,
\* sorted by score with a stable sort
optimize_transpose_suggestion(diff, current_transpose, current_octave) ==
    LET S(k) == SuggestionFor(diff, current_transpose, current_octave, k)
        best == CHOOSE k \in (0 - 2)..2 :
                    \A j \in (0 - 2)..2 :
                        \/ Score(S(k)) < Score(S(j))
                        \/ Score(S(k)) = Score(S(j)) /\ k <= j
    IN  S(best)

SeqMax(s) == CHOOSE x \in {s[i] : i \in DOMAIN s} : \A j \in DOMAIN s : x >= s[j]
SeqMin(s) == CHOOSE x \in {s[i] : i \in DOMAIN s} : \A j \in DOMAIN s : x <= s[j]

TrackTranspose(w, i) ==
    IF i \in DOMAIN w.track_transpose_vars THEN w.track_transpose_vars[i] ELSE 0
TrackOctave(w, i) ==
    IF i \in DOMAIN w.track_octave_vars THEN w.track_octave_vars[i] ELSE 0
\* shifted_max_note and shifted_min_note of _analyze_single_track
ShiftedMax(w, i) ==
    SeqMax(TrackNotes(w.current_file_path, i)) + TrackTranspose(w, i) + TrackOctave(w, i) * 12
ShiftedMin(w, i) ==
    SeqMin(TrackNotes(w.current_file_path, i)) + TrackTranspose(w, i) + TrackOctave(w, i) * 12

WithKey(d, k, v) == [x \in DOMAIN d \cup {k} |-> IF x = k THEN v ELSE d[x]]

\* The suggestion_cache is one dictionary of the window with the keys
\* 'max_note' and 'min_note', written by the analysis of every track.
CacheKey(i, which) == which

\* _calculate_transpose_suggestion: what it stores in suggestion_cache
calculate_transpose_suggestion(w, i, cfg) ==
    LET max_over == OverLimit(ShiftedMax(w, i), cfg)
        min_over == OverLimit(ShiftedMin(w, i), cfg)
        with_max == IF max_over
                    THEN WithKey(w.suggestion_cache, CacheKey(i, "max_note"),
                                 optimize_transpose_suggestion(
                                     cfg.max_note - ShiftedMax(w, i),
                                     TrackTranspose(w, i), TrackOctave(w, i)))
                    ELSE w.suggestion_cache
    IN  IF min_over
        THEN WithKey(with_max, CacheKey(i, "min_note"),
                     optimize_transpose_suggestion(
                         cfg.min_note - ShiftedMin(w, i),
                         TrackTranspose(w, i), TrackOctave(w, i)))
        ELSE with_max

\* the links of the suggestion text: "<highest>transpose t, octave o" and
\* "<lowest>transpose t, octave o", each only when its note is over the limit
SuggestionText(w, i, cfg) ==
    [max_link |-> IF OverLimit(ShiftedMax(w, i), cfg)
                  THEN Some(optimize_transpose_suggestion(
                                cfg.max_note - ShiftedMax(w, i),
                                TrackTranspose(w, i), TrackOctave(w, i)))
                  ELSE Nothing,
     min_link |-> IF OverLimit(ShiftedMin(w, i), cfg)
                  THEN Some(optimize_transpose_suggestion(
                                cfg.min_note - ShiftedMin(w, i),
                                TrackTranspose(w, i), TrackOctave(w, i)))
                  ELSE Nothing]

\* _analyze_single_track: mid.tracks[track_index] raises IndexError for a
\* track the file does not have (caught: nothing happens); otherwise the
\* suggestions go to the cache and the row is updated through root.after
analyze_single_track(w, i) ==
    IF w.current_file_path = None THEN w
    ELSE IF i \notin TrackIndexes(w.current_file_path) THEN w
    ELSE Enqueue([w EXCEPT !.suggestion_cache =
                               calculate_transpose_suggestion(w, i, DefaultKeySettings)],
                 [kind |-> "row", track |-> i,
                  links |-> SuggestionText(w, i, DefaultKeySettings)])

\* update_analysis_info: one thread analyses the selected tracks in turn
update_analysis_info(w) ==
    IF w.current_file_path = None \/ w.selected_tracks = {} THEN w
    ELSE StartThread(w, "analysis",
                     [pc |-> "running", todo |-> Ascending(w.selected_tracks)])

\* update_track_transpose: the track is analysed again, then the events
update_track_transpose(w, i) ==
    update_event_data(IF i \in w.selected_tracks THEN analyze_single_track(w, i) ELSE w)

\* _apply_max_note_suggestion / _apply_min_note_suggestion of track i
apply_note_suggestion(w, i, which) ==
    IF CacheKey(i, which) \notin DOMAIN w.suggestion_cache THEN w
    ELSE LET suggestion == w.suggestion_cache[CacheKey(i, which)]
             set == [w EXCEPT !.track_transpose_vars[i] = suggestion.transpose,
                              !.track_octave_vars[i] = suggestion.octave]
         IN  analyze_single_track(update_event_data(set), i)

(***************************************************************************)
(* MIDI audition and preview                                               *)
(***************************************************************************)
stop_preview(w) ==
    LET stopped == Enqueue([w EXCEPT !.is_previewing = FALSE, !.music_busy = FALSE],
                           [kind |-> "preview_button_text"])
    IN  IF w.current_file_path # None
        THEN Enqueue(stopped, [kind |-> "midi_play_button_normal"])
        ELSE stopped

stop_midi_playback(w) ==
    [w EXCEPT !.music_busy = FALSE,
              !.is_playing_midi = FALSE,
              !.midi_play_button.text = "play midi",
              !.preview_button.state =
                  IF w.current_file_path # None THEN "normal" ELSE @]

check_midi_playback(w) ==
    IF w.is_playing_midi
    THEN IF ~w.music_busy THEN stop_midi_playback(w)
         ELSE Enqueue(w, [kind |-> "check_midi_playback"])
    ELSE w

\* (mutation: the audition starts without ending a running preview)
PreviewEndedForAuditionOmitted(w) == w

\* if hasattr(self, 'is_previewing') and self.is_previewing: self.stop_preview()
PreviewEndedForAudition(w) == IF w.is_previewing THEN stop_preview(w) ELSE w

\* music_loads: pygame.mixer.music.load(self.current_file_path) returns
start_midi_playback(w, music_loads) ==
    IF w.current_file_path # None
    THEN LET silent == [PreviewEndedForAudition(w) EXCEPT !.music_busy = FALSE]
         IN  IF music_loads
             THEN check_midi_playback(
                      [silent EXCEPT !.music_busy = TRUE,
                                     !.is_playing_midi = TRUE,
                                     !.midi_play_button.text = "stop midi",
                                     !.preview_button.state = "disabled"])
             ELSE [silent EXCEPT !.is_playing_midi = FALSE]
    ELSE w

start_preview(w) ==
    StartThread([w EXCEPT !.midi_play_button.state = "disabled",
                          !.is_previewing = TRUE,
                          !.preview_button.text = "stop preview"],
                "preview", [pc |-> "start"])

toggle_preview(w) ==
    IF ~w.is_previewing
    THEN LET quiet == IF w.is_playing_midi THEN stop_midi_playback(w) ELSE w
             fresh == IF quiet.current_events = <<>> THEN update_event_data(quiet)
                      ELSE quiet
         IN  IF fresh.current_events # <<>> THEN start_preview(fresh) ELSE fresh
    ELSE stop_preview(w)

(***************************************************************************)
(* Loading a file                                                          *)
(***************************************************************************)
\* update_ui of parse_and_analyze_in_thread: the rows of the tracks that
\* have notes, all selected, and the events of the scan
update_ui(w, file_path, scanned, analysis_result, with_notes) ==
    Enqueue([w EXCEPT !.rows = [i \in with_notes |-> NoLinks],
                      !.track_transpose_vars = [i \in with_notes |-> 0],
                      !.track_octave_vars = [i \in with_notes |-> 0],
                      !.selected_tracks = with_notes,
                      !.current_file_path = file_path,
                      !.current_events =
                          SelectSeq(scanned, LAMBDA e : e.track \in with_notes),
                      !.current_analysis_result = Some(analysis_result),
                      !.midi_play_button.state = "normal"],
            [kind |-> "update_analysis_info"])

\* A callback of root.after runs in the Tk thread.
\* _show_error_and_cleanup is not a method of MainWindow: the lambda that
\* calls it raises AttributeError and changes nothing.
RunCallback(w, cb) ==
    CASE cb.kind = "update_ui" ->
            update_ui(w, cb.file_path, cb.events, cb.analysis_result, cb.with_notes)
      [] cb.kind = "show_error" -> w
      [] cb.kind = "update_analysis_info" -> update_analysis_info(w)
      [] cb.kind = "row" ->
            IF cb.track \in DOMAIN w.rows
            THEN [w EXCEPT !.rows[cb.track] = cb.links] ELSE w
      [] cb.kind = "preview_button_text" -> [w EXCEPT !.preview_button.text = "preview"]
      [] cb.kind = "midi_play_button_normal" ->
            [w EXCEPT !.midi_play_button.state = "normal"]
      [] cb.kind = "check_midi_playback" -> check_midi_playback(w)

\* self.root.update(): the callbacks that are pending are run
RECURSIVE RunPending(_, _)
RunPending(w, n) ==
    IF n = 0 THEN w
    ELSE RunPending(RunCallback([w EXCEPT !.after = Tail(@)], Head(w.after)), n - 1)

\* The load threads that are still running see a later load start.  The
\* code keeps no such record (nothing tells a thread that its file is no
\* longer wanted); the field only observes the order of events.
Supersede(loads) ==
    [k \in DOMAIN loads |->
        IF loads[k].pc = "running" THEN [loads[k] EXCEPT !.superseded = TRUE]
        ELSE loads[k]]

\* _load_and_analyze_midi up to thread.start()
load_and_analyze_midi(w, file_path) ==
    LET cleared == [w EXCEPT !.rows = NoDict,
                             !.selected_tracks = {},
                             !.track_transpose_vars = NoDict,
                             !.track_octave_vars = NoDict]
        updated == RunPending(cleared, Len(cleared.after))
    IN  StartThread([updated EXCEPT !.threads.load = Supersede(@)],
                    "load", [pc |-> "running", file_path |-> file_path,
                             superseded |-> FALSE])

song_selected(w, file_path, music_loads) ==
    LET loading == [load_and_analyze_midi(
                        [w EXCEPT !.current_file = file_path,
                                  !.transpose_var = 0, !.octave_var = 0], file_path)
                    EXCEPT !.preview_button.state = "normal"]
    IN  IF loading.is_playing_midi
        THEN start_midi_playback(stop_midi_playback(loading), music_loads)
        ELSE loading

\* next_index = (current_index + 1) % len(self.midi_files)
NextFile(w) ==
    IF \E i \in DOMAIN midi_files : midi_files[i] = w.current_file_path
    THEN LET i == CHOOSE i \in DOMAIN midi_files : midi_files[i] = w.current_file_path
         IN  midi_files[(i % Len(midi_files)) + 1]
    ELSE midi_files[1]

\* parse_and_analyze_in_thread: the scan of all tracks at transposition 0
parse_and_analyze_in_thread(w, th) ==
    LET ret == PrettyMidiReturn(PmOf(th.file_path), DefaultKeySettings)
    IN  IF Unpacks(ret)
        THEN Enqueue(w, [kind |-> "update_ui", file_path |-> th.file_path,
                         events |-> ret[1], analysis_result |-> ret[2],
                         with_notes |-> {i \in DOMAIN ret[3] : ret[4][i] > 0}])
        ELSE \* except Exception as e:
             Enqueue(w, [kind |-> "show_error"])

\* A window that shows a loaded file: update_ui has stored the scan.
LoadedWindow(f) ==
    LET ret == PrettyMidiReturn(PmOf(f), DefaultKeySettings)
    IN  update_ui([ConstructedWindow EXCEPT !.current_file = f,
                                            !.preview_button.state = "normal"],
                  f, ret[1], ret[2], TrackIndexes(f))

(***************************************************************************)
(* The steps of the window: handlers and callbacks in the Tk thread, and   *)
(* the steps of the background threads.                                    *)
(***************************************************************************)
WindowStep(w) ==
    /\ window' = w
    /\ UNCHANGED <<inputs, pc, path, locals, result, call_log>>

Started(w, target) == Len(w.threads[target])
AtPc(target, k, at) == window.threads[target][k].pc = at
Goto(target, k, at) == [window EXCEPT !.threads[target][k].pc = at]

\* The user acts (a click, a selection) while few callbacks are pending.
UserActs == Len(window.after) <= MaxPending

\* the Tk main loop runs the callback at the head of the queue
AfterCallback ==
    /\ window.after # <<>>
    /\ WindowStep(RunCallback([window EXCEPT !.after = Tail(@)], Head(window.after)))

\* <<TreeviewSelect>> of the song list
SongSelected ==
    /\ UserActs
    /\ Started(window, "load") < MaxLoads
    /\ \E f \in WindowFiles, music_loads \in BOOLEAN :
          WindowStep(song_selected(window, f, music_loads))

\* play_next_song (the player of midi_player is not playing)
PlayNextSong ==
    /\ UserActs
    /\ Started(window, "load") < MaxLoads
    /\ WindowStep(load_and_analyze_midi(window, NextFile(window)))

LoadThreadOf(k) ==
    /\ AtPc("load", k, "running")
    /\ WindowStep(parse_and_analyze_in_thread(Goto("load", k, "done"),
                                              window.threads.load[k]))
LoadThread == \E k \in DOMAIN window.threads.load : LoadThreadOf(k)

\* the command of midi_play_button
ToggleMidiPlayback ==
    /\ UserActs
    /\ window.midi_play_button.state = "normal"
    /\ \E music_loads \in BOOLEAN :
          WindowStep(IF ~window.is_playing_midi
                     THEN start_midi_playback(window, music_loads)
                     ELSE stop_midi_playback(window))

\* the command of preview_button
TogglePreview ==
    /\ UserActs
    /\ window.preview_button.state = "normal"
    /\ window.is_previewing \/ Started(window, "preview") < MaxPreviews
    /\ WindowStep(toggle_preview(window))

\* _preview_thread up to play_preview: the temporary file is written and
\* pygame plays it
PreviewStartOf(k) ==
    /\ AtPc("preview", k, "start")
    /\ WindowStep(IF window.current_events = <<>>
                  THEN Goto("preview", k, "finally")
                  ELSE [Goto("preview", k, "loop") EXCEPT !.music_busy = TRUE])
PreviewStart == \E k \in DOMAIN window.threads.preview : PreviewStartOf(k)

\* while preview_wrapper.is_playing() and self.is_previewing: is false
PreviewLoopExitOf(k) ==
    /\ AtPc("preview", k, "loop")
    /\ ~(window.music_busy /\ window.is_previewing)
    /\ WindowStep(Goto("preview", k, "after_loop"))
PreviewLoopExit == \E k \in DOMAIN window.threads.preview : PreviewLoopExitOf(k)

\* if preview_wrapper.is_playing(): preview_wrapper.stop_playback()
PreviewStopPlaybackOf(k) ==
    /\ AtPc("preview", k, "after_loop")
    /\ WindowStep([Goto("preview", k, "finally") EXCEPT !.music_busy = FALSE])
PreviewStopPlayback == \E k \in DOMAIN window.threads.preview : PreviewStopPlaybackOf(k)

\* finally: if self.is_previewing: the button text is reset through
\* root.after and is_previewing is cleared
PreviewFinallyOf(k) ==
    /\ AtPc("preview", k, "finally")
    /\ WindowStep(IF window.is_previewing
                  THEN Enqueue([Goto("preview", k, "done") EXCEPT !.is_previewing = FALSE],
                               [kind |-> "preview_button_text"])
                  ELSE Goto("preview", k, "done"))
PreviewFinally == \E k \in DOMAIN window.threads.preview : PreviewFinallyOf(k)

\* pygame reaches the end of what it plays
MusicEnds ==
    /\ window.music_busy
    /\ WindowStep([window EXCEPT !.music_busy = FALSE])

\* the + and - buttons of a track row
AdjustTrackTranspose ==
    /\ UserActs
    /\ \E i \in DOMAIN window.track_transpose_vars, delta \in {0 - 1, 1} :
          /\ Abs(window.track_transpose_vars[i] + delta) <= MaxTrackTranspose
          /\ WindowStep(update_track_transpose(
                            [window EXCEPT !.track_transpose_vars[i] = @ + delta], i))

\* analyze_in_thread: for track_index in list(self.selected_tracks)
AnalysisThreadOf(k) ==
    /\ AtPc("analysis", k, "running")
    /\ LET todo == window.threads.analysis[k].todo
       IN  WindowStep(IF todo = <<>> THEN Goto("analysis", k, "done")
                      ELSE analyze_single_track(
                               [window EXCEPT !.threads.analysis[k].todo = Tail(todo)],
                               Head(todo)))
AnalysisThread == \E k \in DOMAIN window.threads.analysis : AnalysisThreadOf(k)

\* <Button-1> on the link of the highest / lowest note in the row of track i
LinkShown(i, link) == i \in DOMAIN window.rows /\ window.rows[i][link] # Nothing
ApplyMaxNoteSuggestionOf(i) ==
    /\ UserActs
    /\ LinkShown(i, "max_link")
    /\ window.clicks < MaxClicks
    /\ WindowStep(apply_note_suggestion([window EXCEPT !.clicks = @ + 1], i, "max_note"))
ApplyMinNoteSuggestionOf(i) ==
    /\ UserActs
    /\ LinkShown(i, "min_link")
    /\ window.clicks < MaxClicks
    /\ WindowStep(apply_note_suggestion([window EXCEPT !.clicks = @ + 1], i, "min_note"))

ApplyMaxNoteSuggestion == \E i \in DOMAIN window.rows : ApplyMaxNoteSuggestionOf(i)
ApplyMinNoteSuggestion == \E i \in DOMAIN window.rows : ApplyMinNoteSuggestionOf(i)

\* update_event_data called on its own (show_event_table, the handlers of
\* the global transposition)
UpdateEventData ==
    /\ UserActs
    /\ WindowStep(update_event_data(window))

\* No call of analyze_midi_file is walked step by step: the window's calls
\* are at transposition 0.
AnalyzerIdle ==
    /\ file_exists = TRUE /\ pretty_midi = TRUE
    /\ pm_loads = TRUE /\ mido_loads = FALSE
    /\ mid = NoMid /\ pm = NoPm
    /\ arg_tracks = {}
    /\ transpose = 0 /\ octave_shift = 0
    /\ key_settings = DefaultKeySettings
    /\ InitLocals
    /\ call_log = <<>>

\* The window showing a file that has just been loaded: its rows are about
\* to be analysed.
InitTracks ==
    /\ AnalyzerIdle
    /\ window \in {LoadedWindow(f) : f \in WindowFiles}

NextTracks ==
    \/ AfterCallback
    \/ AdjustTrackTranspose
    \/ AnalysisThread
    \/ ApplyMaxNoteSuggestion
    \/ ApplyMinNoteSuggestion
    \/ UpdateEventData

SpecTracks == InitTracks /\ [][NextTracks]_vars

\* The rows of a loaded file once update_analysis_info has gone through
\* the tracks and the rows show their suggestions.
RECURSIVE AnalyzeTracks(_, _)
AnalyzeTracks(w, todo) ==
    IF todo = <<>> THEN w
    ELSE AnalyzeTracks(analyze_single_track(w, Head(todo)), Tail(todo))
ShownWindow(f) ==
    LET loaded == LoadedWindow(f)
        analysed == AnalyzeTracks([loaded EXCEPT !.after = <<>>],
                                  Ascending(loaded.selected_tracks))
    IN  RunPending(analysed, Len(analysed.after))

\* The window after construction, or showing a file.
InitWindow ==
    /\ AnalyzerIdle
    /\ window \in {ConstructedWindow} \cup {ShownWindow(f) : f \in WindowFiles}

\* Files are loaded one after another.
NextLoad ==
    \/ AfterCallback
    \/ SongSelected
    \/ PlayNextSong
    \/ LoadThread

SpecLoad == InitWindow /\ [][NextLoad]_vars

\* The audition and the preview of the file shown, and another song chosen.
NextWindow ==
    \/ AfterCallback
    \/ SongSelected
    \/ LoadThread
    \/ ToggleMidiPlayback
    \/ TogglePreview
    \/ PreviewStart
    \/ PreviewLoopExit
    \/ PreviewStopPlayback
    \/ PreviewFinally
    \/ MusicEnds

SpecWindow == InitWindow /\ [][NextWindow]_vars


(***************************************************************************)
(* Vocabulary of the properties.                                           *)
(***************************************************************************)
Done == pc = "done"
Returned == result.events
Summary == result.summary
MidoPaths == {"mido_only", "load_error_mido", "instrument_error_mido"}
Pairs(S) == {p \in S \X S : p[1] < p[2]}

\* Absolute tick of message i of a track: the sum of the delta times up to it.
RECURSIVE AbsTick(_, _)
AbsTick(track, i) == IF i = 0 THEN 0 ELSE AbsTick(track, i - 1) + track[i].time

\* The tracks the mido loop walks on the path taken.
WalkedTracks ==
    IF path = "mido_only" THEN {k \in arg_tracks : k < Len(mid.tracks)}
    ELSE IF path = "load_error_mido" THEN {k - 1 : k \in DOMAIN mid.tracks}
    ELSE {}

EventsOfTrack(evs, k) == SelectSeq(evs, LAMBDA e : e.track = k)

\* The notes of all instruments of the pretty_midi object.
RECURSIVE PmNotesUpTo(_)
PmNotesUpTo(k) == IF k = 0 THEN 0 ELSE PmNotesUpTo(k - 1) + Len(pm[k].notes)
PmNoteCount == PmNotesUpTo(Len(pm))

----------------------------------------------------------------------------
\* C1: in every returned event list the times are non-decreasing:
\* events[i].time <= events[i+1].time for all adjacent i, on every path.
C1_TimesNonDecreasing ==
    Done => \A i \in 1..(Len(Returned) - 1) :
                RLeq(Returned[i].time, Returned[i + 1].time)

\* A call returned the two notes of an instrument whose note list holds
\* the later note first, so that the loop appended them out of time order.
C1_Witness ==
    /\ Done /\ path = "pretty_midi"
    /\ Len(pm[1].notes) = 2
    /\ RLt(pm[1].notes[2].start, pm[1].notes[1].start)
    /\ Len(Returned) = 4

\* C2: whenever a note_off and a note_on of the returned list have the same
\* time, the note_off has the smaller index.
C2_OffBeforeOnAtTies ==
    Done => \A p \in Pairs(DOMAIN Returned) :
                ~ /\ Returned[p[1]].type = "note_on"
                  /\ Returned[p[2]].type = "note_off"
                  /\ Returned[p[1]].time = Returned[p[2]].time

\* C3: with a non-empty selected_tracks every returned event has its track
\* in selected_tracks.
C3_OnlySelectedTracks ==
    (Done /\ arg_tracks # {}) =>
        \A i \in DOMAIN Returned : Returned[i].track \in arg_tracks

\* A track holds a paired note: a note-on followed by a note-off of its key.
HasPairedNote(track) ==
    \E p \in Pairs(DOMAIN track) :
        /\ IsNoteOn(track[p[1]]) /\ IsNoteOff(track[p[2]])
        /\ track[p[1]].channel = track[p[2]].channel
        /\ track[p[1]].note = track[p[2]].note

\* C4: with an empty selected_tracks all tracks are analysed: every track
\* (instrument) that holds a paired note has events in the returned list,
\* whichever backend parsed the file.
C4_EmptySelectionMeansAll ==
    (Done /\ arg_tracks = {}) =>
        /\ path \in {"mido_only", "load_error_mido"} =>
              \A k \in DOMAIN mid.tracks :
                  HasPairedNote(mid.tracks[k]) =>
                      \E i \in DOMAIN Returned : Returned[i].track = k - 1
        /\ path = "pretty_midi" =>
              \A k \in DOMAIN pm :
                  pm[k].notes # <<>> =>
                      \E i \in DOMAIN Returned : Returned[i].track = k - 1

\* What a note_on promises about its note_off, and what a note_off is.
OnKey(e) == <<e.note, e.channel, e.track, e.end>>
OffKey(e) == <<e.note, e.channel, e.track, e.time>>
OnIdx(evs) == {i \in DOMAIN evs : evs[i].type = "note_on"}
OffIdx(evs) == {i \in DOMAIN evs : evs[i].type = "note_off"}

\* C5: every paired note yields exactly two events: a note_on at its start
\* with duration = end - start and end = its end time, and a note_off at the
\* end time with the same note, channel and track; so the note_ons and the
\* note_offs match one to one and the list has even length.  On the
\* pretty_midi path the note_ons are exactly the notes of the instruments.
C5_TwoEventsPerNote ==
    Done =>
        /\ \A i \in OnIdx(Returned) :
              Returned[i].duration = RSub(Returned[i].end, Returned[i].time)
        /\ \A v \in {OnKey(Returned[i]) : i \in OnIdx(Returned)}
                 \cup {OffKey(Returned[i]) : i \in OffIdx(Returned)} :
              Cardinality({i \in OnIdx(Returned) : OnKey(Returned[i]) = v})
                = Cardinality({i \in OffIdx(Returned) : OffKey(Returned[i]) = v})
        /\ Cardinality(OnIdx(Returned)) = Cardinality(OffIdx(Returned))
        /\ Len(Returned) = 2 * Cardinality(OnIdx(Returned))
        /\ path = "pretty_midi" =>
              /\ Len(Returned) = 2 * PmNoteCount
              /\ \A k \in DOMAIN pm : \A n \in DOMAIN pm[k].notes :
                    LET note == pm[k].notes[n]
                        same(e) == /\ e.track = k - 1
                                   /\ e.time = note.start /\ e.end = note.end
                                   /\ e.velocity = note.velocity
                    IN  Cardinality({i \in OnIdx(Returned) : same(Returned[i])})
                          = Cardinality({m \in DOMAIN pm[k].notes :
                                /\ pm[k].notes[m].start = note.start
                                /\ pm[k].notes[m].end = note.end
                                /\ pm[k].notes[m].velocity = note.velocity})

\* Two notes were paired by the mido loop and returned.
C5_Witness ==
    /\ Done /\ path \in MidoPaths
    /\ Len(Returned) = 4
    /\ \E i \in OnIdx(Returned) : Returned[i].duration # RInt(0)


\* The time the mido loop gives a tick.
TimeOfTick(t) == RMul(RInt(t), tick_to_second)
SameKey(a, b) == a.channel = b.channel /\ a.note = b.note

\* A track of two note-ons of one key followed by two note-offs of that key.
IsOverlapTrack(track) ==
    /\ Len(track) = 4
    /\ IsNoteOn(track[1]) /\ IsNoteOn(track[2])
    /\ IsNoteOff(track[3]) /\ IsNoteOff(track[4])
    /\ \A i \in 2..4 : SameKey(track[1], track[i])

\* C6: two note-ons of one key before any note-off, then two note-offs: the
\* first note-off pairs with the first note-on and the second with the second
\* (FIFO): two spans are returned and no note-on is lost.
C6_FifoPairing ==
    \A k \in WalkedTracks :
        (Done /\ IsOverlapTrack(mid.tracks[k + 1])) =>
            LET track == mid.tracks[k + 1]
                evs == EventsOfTrack(Returned, k)
                span(a, b) ==
                    \E i \in OnIdx(evs) :
                        /\ evs[i].time = TimeOfTick(AbsTick(track, a))
                        /\ evs[i].end = TimeOfTick(AbsTick(track, b))
            IN  /\ Cardinality(OnIdx(evs)) = 2
                /\ Cardinality(OffIdx(evs)) = 2
                /\ span(1, 3)
                /\ span(2, 4)

\* A track that consists of non-overlapping note-on / note-off pairs.
PairsOnly(track) ==
    /\ Len(track) % 2 = 0
    /\ \A i \in DOMAIN track :
          i % 2 = 1 => /\ IsNoteOn(track[i])
                       /\ IsNoteOff(track[i + 1])
                       /\ SameKey(track[i], track[i + 1])

\* The transposition (and black-key handling) of the tail of the path taken.
Transposed(e) ==
    IF path = "mido_only" THEN MidoOnlyEvent(e, key_settings)
    ELSE TransformEvent(e, key_settings)

\* The events a pairs-only track k is to give, pair by pair.
ExpectedPairEvents(k) ==
    LET track == mid.tracks[k + 1]
        on(i)  == track[i]
        t0(i)  == TimeOfTick(AbsTick(track, i))
        t1(i)  == TimeOfTick(AbsTick(track, i + 1))
    IN  [j \in DOMAIN track |->
            IF j % 2 = 1
            THEN Transposed(note_on_event(t0(j), on(j).note, on(j).channel, k,
                                          RSub(t1(j), t0(j)), t1(j), on(j).velocity))
            ELSE Transposed(note_off_event(t0(j), on(j - 1).note, on(j - 1).channel, k,
                                           on(j - 1).velocity))]

\* C7: a track of N non-overlapping note-on / note-off pairs gives exactly N
\* note_on and N note_off events, the i-th pair with the note, channel and
\* track of the i-th source pair, at the times of its two messages and with
\* duration the time between them.
C7_PairsGivePairs ==
    \A k \in WalkedTracks :
        (Done /\ PairsOnly(mid.tracks[k + 1])) =>
            EventsOfTrack(Returned, k) = ExpectedPairEvents(k)

\* A walked track of two pairs of different notes, the second pair of
\* non-zero length and not starting at time 0.
C7_Witness ==
    /\ Done
    /\ \E k \in WalkedTracks :
          LET track == mid.tracks[k + 1]
          IN  /\ PairsOnly(track) /\ Len(track) = 4
              /\ track[1].note # track[3].note
              /\ track[3].time > 0 /\ track[4].time > 0
              /\ Len(EventsOfTrack(Returned, k)) = 4

\* C8: pairing state is per track: every returned note_on of track k starts
\* at a note-on message of track k itself; a note-on left unmatched at the
\* end of another track is never paired with a note-off of track k.
C8_PairingPerTrack ==
    (Done /\ path \in {"mido_only", "load_error_mido"}) =>
        \A i \in OnIdx(Returned) :
            LET k == Returned[i].track
                track == mid.tracks[k + 1]
            IN  \E m \in DOMAIN track :
                    /\ IsNoteOn(track[m])
                    /\ track[m].channel = Returned[i].channel
                    /\ TimeOfTick(AbsTick(track, m)) = Returned[i].time

\* The loop is at a note-off whose key has no pending note-on.
AtOrphanOff == AtMsg /\ IsNoteOff(Msg) /\ NoteKey \notin DOMAIN active_notes

\* C9: a note-off (or zero-velocity note-on) for a key with no pending
\* note-on is silently discarded: the step adds no event, leaves the pending
\* notes as they are, does not leave the loop, and the summary returned at
\* the end of a walk carries no error field.
C9_OrphanOffDiscarded ==
    /\ [][AtOrphanOff =>
            /\ events' = events
            /\ active_notes' = active_notes
            /\ pc' = pc /\ ti' = ti /\ mi' = mi + 1
            /\ result' = result]_vars
    /\ [](Done /\ path \in MidoPaths => "error" \notin DOMAIN Summary)

\* An orphan note-off has just been passed: the previous message of the
\* track was a note-off and nothing has been appended or is pending.
C9_Witness ==
    /\ pc = "mido_walk" /\ ti <= Len(selected_tracks) /\ TrackInRange
    /\ mi > 1 /\ mi <= Len(Track)
    /\ IsNoteOff(Track[mi - 1])
    /\ events = <<>> /\ active_notes = NoActiveNotes
    /\ IsNoteOn(Msg)

\* Every set_tempo of the file, if any, sets tempo T.
ConstantTempo(T) ==
    \A k \in DOMAIN mid.tracks : \A i \in DOMAIN mid.tracks[k] :
        mid.tracks[k][i].type = "set_tempo" => mid.tracks[k][i].tempo = T

\* tick * T / (PPQN * 1,000,000) seconds
SecondsOfTick(t, T, ppqn) == RMul(RInt(t), Rat(T, ppqn * 1000000))

\* C10: with PPQN 480 and constant tempo 500000 (also with no tempo event)
\* a tick t is t * 500000 / (480 * 1,000,000) seconds on the mido paths too:
\* every returned note_on lies at the seconds of a note-on message of its
\* track and ends at the seconds of a note-off message (tick 0 to tick 480:
\* time 0, duration 1/2, end 1/2).
C10_TickSeconds ==
    (Done /\ path \in {"mido_only", "load_error_mido"}
          /\ mid.ticks_per_beat = 480 /\ ConstantTempo(500000)) =>
        \A i \in OnIdx(Returned) :
            LET track == mid.tracks[Returned[i].track + 1]
                sec(m) == SecondsOfTick(AbsTick(track, m), 500000, 480)
            IN  /\ \E m \in DOMAIN track :
                      IsNoteOn(track[m]) /\ Returned[i].time = sec(m)
                /\ \E m \in DOMAIN track :
                      IsNoteOff(track[m]) /\ Returned[i].end = sec(m)

\* The set_tempo messages of the file as (track, index) positions.
TempoPositions ==
    {p \in UNION {{<<k, i>> : i \in DOMAIN mid.tracks[k]} : k \in DOMAIN mid.tracks} :
        mid.tracks[p[1]][p[2]].type = "set_tempo"}
TickOfPosition(p) == AbsTick(mid.tracks[p[1]], p[2])
Later(p, q) == p[1] > q[1] \/ (p[1] = q[1] /\ p[2] >= q[2])

\* The tempo in force from tick u on: that of the last breakpoint at or
\* before u (the later-declared one at an equal tick), 500000 if none.
TempoAt(u) ==
    LET before == {p \in TempoPositions : TickOfPosition(p) <= u}
    IN  IF before = {} THEN 500000
        ELSE LET p == CHOOSE p \in before : \A q \in before :
                          \/ TickOfPosition(p) > TickOfPosition(q)
                          \/ TickOfPosition(p) = TickOfPosition(q) /\ Later(p, q)
             IN  mid.tracks[p[1]][p[2]].tempo

\* seconds(tick): the sum over the tempo segments before the tick of
\* segment_ticks * segment_tempo / (PPQN * 1,000,000).
RECURSIVE SecondsAt(_)
SecondsAt(x) ==
    IF x = 0 THEN RInt(0)
    ELSE LET cuts == {0} \cup {TickOfPosition(p) : p \in {q \in TempoPositions :
                                                           TickOfPosition(q) < x}}
             prev == CHOOSE c \in cuts : \A d \in cuts : d <= c
         IN  RAdd(SecondsAt(prev),
                  RMul(Rat(x - prev, mid.ticks_per_beat), Rat(TempoAt(prev), 1000000)))

\* The factor of the walk is tempo / (PPQN * 1,000,000) for a tempo the
\* file sets: the one conversion is right for one of the segments.
FactorOfSomeTempo ==
    \E p \in TempoPositions :
        tick_to_second = Rat(mid.tracks[p[1]][p[2]].tempo, mid.ticks_per_beat * 1000000)

\* C11: the tick-to-second conversion honours every tempo change of the
\* file: every returned note_on of a mido path lies at seconds(tick) of a
\* note-on message of its track and ends at seconds(tick) of a note-off
\* message, seconds() being the sum over the tempo segments; a set_tempo at
\* tick k > 0 and a second set_tempo are not ignored.  (Stated for the
\* files where the factor used is that of one of the file's tempos.)
C11_TempoChangesHonoured ==
    (Done /\ path \in {"mido_only", "load_error_mido"} /\ FactorOfSomeTempo) =>
        \A i \in OnIdx(Returned) :
            LET track == mid.tracks[Returned[i].track + 1]
            IN  /\ \E m \in DOMAIN track :
                      /\ IsNoteOn(track[m])
                      /\ Returned[i].time = SecondsAt(AbsTick(track, m))
                /\ \E m \in DOMAIN track :
                      /\ IsNoteOff(track[m])
                      /\ Returned[i].end = SecondsAt(AbsTick(track, m))

----------------------------------------------------------------------------
(***************************************************************************)
(* The tail: transposition, range flag, black keys, groups and names.      *)
(***************************************************************************)
\* The call is about to run one of the two tails.
AtTail == pc \in {"transform", "mido_only_tail"}
\* The events before the transposition loop, in the order of the return.
Raw == SortByTime(events)
\* The note of raw event i after transposition.
TransposedNote(i) == Raw[i].note + transpose + 12 * octave_shift
InRange(n, cfg) == cfg.min_note <= n /\ n <= cfg.max_note
BlackPitchClasses == {1, 3, 6, 8, 10}
InTable(n) == 21 <= n /\ n <= 108

\* What the tail about to run gives event e when called with
\* transpose = t and octave_shift = o.
TailEvent(e, t, o) ==
    IF pc = "mido_only_tail" THEN MidoOnlyEventBy(e, TransposeTotal(t, o), key_settings)
    ELSE TransformEventBy(e, TransposeTotal(t, o), key_settings)

\* C12: a call with transpose = t and octave_shift = o returns, event by
\* event, the note values, is_over_limit flags and groups of the call with
\* transpose = t + 12 * o and octave_shift = 0 on the same file and tracks.
C12_OctaveIsTwelveSemitones ==
    [][(AtTail /\ key_settings.numeric) =>
          /\ Len(result'.events) = Len(Raw)
          /\ \A i \in DOMAIN Raw :
                LET other == TailEvent(Raw[i], transpose + 12 * octave_shift, 0)
                IN  /\ result'.events[i].note = other.note
                    /\ result'.events[i].is_over_limit = other.is_over_limit
                    /\ result'.events[i].group = other.group]_vars

\* A call with both a transposition and an octave shift returned events.
C12_Witness ==
    /\ Done /\ Returned # <<>>
    /\ transpose # 0 /\ octave_shift # 0

\* C13 (as claimed): for every returned event, is_over_limit is
\* (note < config_min_note or note > config_max_note) on the note the
\* returned event carries, for every range and black_key_mode.
C13_FlagOnReturnedNote ==
    Done => \A i \in DOMAIN Returned :
                Returned[i].is_over_limit =
                    (\/ Returned[i].note < Summary.config_min_note
                     \/ Returned[i].note > Summary.config_max_note)

\* C13 (amended): for every returned event, is_over_limit is
\* (n < config_min_note or n > config_max_note) where n is the note after
\* transposition, original note + transpose + 12 * octave_shift, before any
\* black-key remap; config_min_note and config_max_note as in the summary.
C13_FlagOnTransposedNote ==
    [][(AtTail /\ key_settings.numeric) =>
          /\ Len(result'.events) = Len(Raw)
          /\ \A i \in DOMAIN Raw :
                result'.events[i].is_over_limit =
                    (\/ TransposedNote(i) < result'.summary.config_min_note
                     \/ TransposedNote(i) > result'.summary.config_max_note)]_vars

\* A returned event lies below config_min_note and is not flagged: it was
\* in range after transposition and the remap took it out.
C13_Witness ==
    /\ Done
    /\ \E i \in DOMAIN Returned :
          /\ ~Returned[i].is_over_limit
          /\ Returned[i].note < Summary.config_min_note

\* C14: in auto_sharp mode every note that is inside [min_note, max_note]
\* after transposition and whose pitch class is in {1,3,6,8,10} is returned
\* lowered by exactly one semitone, for every configured range, also for
\* in-range values outside 21..108.
C14_SharpsLowered ==
    [][(AtTail /\ key_settings.numeric /\ key_settings.black_key_mode = "auto_sharp") =>
          \A i \in DOMAIN Raw :
              (/\ InRange(TransposedNote(i), key_settings)
               /\ TransposedNote(i) % 12 \in BlackPitchClasses)
              => /\ i \in DOMAIN result'.events
                 /\ result'.events[i].note = TransposedNote(i) - 1]_vars

\* C15: black-key remapping is applied only to notes that are not
\* over-limit and only in auto_sharp mode: an over-limit note, and any note
\* in support_black_key mode, is returned with
\* note = original note + transpose + 12 * octave_shift exactly.
C15_RemapOnlyInRangeAutoSharp ==
    [][(AtTail /\ key_settings.numeric) =>
          /\ Len(result'.events) = Len(Raw)
          /\ \A i \in DOMAIN Raw :
                (\/ ~InRange(TransposedNote(i), key_settings)
                 \/ key_settings.black_key_mode = "support_black_key")
                => result'.events[i].note = TransposedNote(i)]_vars

\* An over-limit black key of the naming table was returned in auto_sharp
\* mode by the common tail.
C15_Witness ==
    /\ Done /\ path = "pretty_midi"
    /\ key_settings.black_key_mode = "auto_sharp"
    /\ \E i \in DOMAIN Returned :
          /\ Returned[i].is_over_limit
          /\ InTable(Returned[i].note)
          /\ Returned[i].note % 12 \in BlackPitchClasses

\* C16: the auto_sharp remap leaves an in-range note of natural pitch class
\* unchanged; every remapped note is natural, so that applying the remap to
\* a returned note again changes nothing.
C16_RemapIdempotent ==
    [][(AtTail /\ key_settings.numeric /\ key_settings.black_key_mode = "auto_sharp") =>
          /\ Len(result'.events) = Len(Raw)
          /\ \A i \in DOMAIN Raw :
                LET n == TransposedNote(i)
                    m == result'.events[i].note
                IN  /\ (InRange(n, key_settings) /\ n % 12 \notin BlackPitchClasses)
                          => m = n
                    /\ m # n => m % 12 \notin BlackPitchClasses
                    /\ pc = "transform" =>
                          AutoSharp(m, OverLimit(m, key_settings), key_settings) = m]_vars

\* The common tail returned a note it lowered: the note of the instrument,
\* transposed, less one.
C16_Witness ==
    /\ Done /\ path = "pretty_midi"
    /\ key_settings.numeric /\ key_settings.black_key_mode = "auto_sharp"
    /\ Returned # <<>>
    /\ Returned[1].note = pm[1].notes[1].pitch + transpose + 12 * octave_shift - 1

\* The nine ranges of the groups.
NineRanges ==
    {<<21, 23>>, <<24, 35>>, <<36, 47>>, <<48, 59>>, <<60, 71>>, <<72, 83>>,
     <<84, 95>>, <<96, 107>>, <<108, 108>>}
Containing(n) == {g \in DOMAIN GROUPS : GROUPS[g].lo <= n /\ n <= GROUPS[g].hi}

\* C17: the nine group ranges are the nine listed ones and partition
\* [21,108]: every returned note n of 21..108 lies in exactly one range, and
\* the group of the event is the label of that range.
C17_GroupsPartition ==
    Done =>
        /\ {<<GROUPS[g].lo, GROUPS[g].hi>> : g \in DOMAIN GROUPS} = NineRanges
        /\ Len(GROUPS) = 9
        /\ \A i \in DOMAIN Returned :
              InTable(Returned[i].note) =>
                  /\ Cardinality(Containing(Returned[i].note)) = 1
                  /\ \A g \in Containing(Returned[i].note) :
                        Returned[i].group = GROUPS[g].name

\* A call returned the last note of a range: 23, 35, ... or 108.
C17_Witness ==
    /\ Done
    /\ \E i \in DOMAIN Returned :
          \E g \in DOMAIN GROUPS : Returned[i].note = GROUPS[g].hi

\* C18: a note outside 21..108 (also a negative one, or one above 127) is
\* named by its bare integer and grouped as unknown, and the call returns
\* normally with the event of that note: no error field, every note of an
\* instrument that leaves the table is in the returned list.
C18_OutOfTableNotes ==
    (Done /\ key_settings.numeric) =>
        /\ \A i \in DOMAIN Returned :
              ~InTable(Returned[i].note) => Returned[i].group = "unknown"
        /\ Returned # <<>> =>
              /\ ~InTable(Summary.min_note) =>
                    /\ Summary.min_note_name = [digits |-> Summary.min_note]
                    /\ Summary.min_note_group = "unknown"
              /\ ~InTable(Summary.max_note) =>
                    /\ Summary.max_note_name = [digits |-> Summary.max_note]
                    /\ Summary.max_note_group = "unknown"
        /\ path = "pretty_midi" =>
              \A k \in DOMAIN pm : \A n \in DOMAIN pm[k].notes :
                  LET v == pm[k].notes[n].pitch + transpose + 12 * octave_shift
                  IN  ~InTable(v) =>
                          /\ "error" \notin DOMAIN Summary
                          /\ \E i \in OnIdx(Returned) :
                                /\ Returned[i].note = v
                                /\ Returned[i].track = k - 1
                                /\ Returned[i].time = pm[k].notes[n].start

\* A call returned a negative note.
C18_Witness ==
    /\ Done
    /\ \E i \in DOMAIN Returned : Returned[i].note < 0

----------------------------------------------------------------------------
\* The paths on which a backend read the file.
ParsedPaths == {"pretty_midi", "mido_only", "load_error_mido", "instrument_error_mido"}

\* C19: when the file does not exist the call returns an empty event list
\* and a summary with an error field, and nothing was parsed; the summary of
\* an existing file that was read and has no notes carries no error field.
C19_NotFoundIsError ==
    /\ (Done /\ ~file_exists) =>
          /\ Returned = <<>>
          /\ "error" \in DOMAIN Summary
          /\ events = <<>>
    /\ (Done /\ file_exists /\ path \in ParsedPaths /\ Returned = <<>>) =>
          "error" \notin DOMAIN Summary

\* A call on a missing file has returned.
C19_Witness ==
    /\ Done /\ ~file_exists
    /\ path = "not_found"

\* The paths on which the file exists and no backend could read it, or an
\* exception left the body of the function.
FailedPaths == {"all_failed", "mido_only_failed", "unexpected_exception"}

\* C20: when the file exists but cannot be parsed (pretty_midi fails to load
\* it and mido fails too, or an unexpected exception escapes) the call
\* returns an empty event list and a summary with an error field.
C20_ParseFailureIsError ==
    (Done /\ file_exists /\ path \in FailedPaths) =>
        /\ Returned = <<>>
        /\ "error" \in DOMAIN Summary

----------------------------------------------------------------------------
\* The keys every summary is to hold.
SummaryKeys ==
    {"min_note", "max_note", "under_min_count", "over_max_count",
     "min_note_name", "max_note_name", "min_note_group", "max_note_group",
     "is_min_over_limit", "is_max_over_limit", "black_key_mode",
     "config_min_note", "config_max_note"}

Flagged(evs) == {i \in DOMAIN evs : evs[i].is_over_limit}

C25_MinMaxFlags ==
    Done =>
        /\ Summary.is_min_over_limit <=> (Summary.under_min_count > 0)
        /\ Summary.is_max_over_limit <=> (Summary.over_max_count > 0)
        /\ IF Returned = <<>>
           THEN Summary.min_note = None /\ Summary.max_note = None
           ELSE /\ \E i \in DOMAIN Returned : Returned[i].note = Summary.min_note
                /\ \E i \in DOMAIN Returned : Returned[i].note = Summary.max_note
                /\ \A i \in DOMAIN Returned :
                      /\ Summary.min_note <= Returned[i].note
                      /\ Returned[i].note <= Summary.max_note


(***************************************************************************)
(* Calls one after another (SpecCalls).                                    *)
(***************************************************************************)
\* the calls that have returned, the one in progress included once it has
Finished ==
    IF Done THEN Append(call_log, [args |-> CurrentCall, returned |-> result])
    ELSE call_log

\* C21: two calls with the same file, selected_tracks, transpose and
\* octave_shift under the same key-range configuration return the same
\* event list and the same summary, whatever calls ran before or between
\* them.
C21_SameArgumentsSameResult ==
    \A i, j \in DOMAIN Finished :
        Finished[i].args = Finished[j].args =>
            /\ Finished[i].returned.events = Finished[j].returned.events
            /\ Finished[i].returned.summary = Finished[j].returned.summary

\* A call that returned events, another call of other arguments, and the
\* first call again.
C21_Witness ==
    /\ Done
    /\ Len(call_log) = 2
    /\ call_log[1].args = CurrentCall
    /\ call_log[2].args # CurrentCall
    /\ call_log[2].returned.events # <<>>
    /\ Returned # <<>>

(***************************************************************************)
(* The window: update_event_data and the track rows (SpecTracks).          *)
(***************************************************************************)
\* update_event_data has completed with a file loaded and a track
\* selected: called on its own, or last in update_track_transpose
EventDataCase ==
    /\ window.current_file_path # None
    /\ window.selected_tracks # {}
    /\ UpdateEventData \/ AdjustTrackTranspose

TotalOffset(w, i) == TrackTranspose(w, i) + TrackOctave(w, i) * 12

LoadsSettled ==
    /\ \A k \in DOMAIN window.threads.load : window.threads.load[k].pc = "done"
    /\ window.after = <<>>

\* the file of the load requested last
LastLoaded == window.threads.load[Len(window.threads.load)].file_path

\* what the scan of file f gives for its tracks: the events of update_ui
ScanOf(f) == PrettyMidiReturn(PmOf(f), DefaultKeySettings)[1]

\* file B was loaded while the analysis of file A, loaded just before it,
\* was running
Superseding ==
    /\ Started(window, "load") >= 2
    /\ window.threads.load[Len(window.threads.load) - 1].superseded
    /\ window.threads.load[Len(window.threads.load) - 1].file_path # LastLoaded

\* C23: when file A and then file B were loaded, B before the analysis of
\* A had finished, then once both analysis threads and their callbacks
\* have run, current_file_path, current_events, selected_tracks and the
\* track rows describe B, in whatever order the threads finished.
C23_LastLoadShown ==
    (Superseding /\ LoadsSettled) =>
        /\ window.current_file_path = LastLoaded
        /\ window.current_events = ScanOf(LastLoaded)
        /\ window.selected_tracks = TrackIndexes(LastLoaded)
        /\ DOMAIN window.rows = TrackIndexes(LastLoaded)

(***************************************************************************)
(* The window: MIDI audition and preview (SpecWindow).                     *)
(***************************************************************************)
\* the preview thread of the session that is_previewing belongs to is the
\* one started last; k is the thread of an earlier session
OldSession(k) == k < Len(window.threads.preview)

C30_AuditionExcludesPreview == ~(window.is_playing_midi /\ window.is_previewing)

\* The audition was started while a preview was running: the preview was
\* stopped (its button reset is pending, its thread has not ended), and the
\* audition plays.
C30_Witness ==
    /\ window.is_playing_midi
    /\ ~window.is_previewing
    /\ \E k \in DOMAIN window.threads.preview : window.threads.preview[k].pc = "loop"
    /\ \E i \in DOMAIN window.after : window.after[i].kind = "preview_button_text"

=============================================================================
